---- MODULE Spec2Model ----
(***************************************************************************)
(* Bourse exchange server: accounts (account.c), trader sessions           *)
(* (trader.c), the order book and its matchmaker (exchange.c), the         *)
(* per-connection servicer (server.c) and the accept loop (main.c).        *)
(*                                                                         *)
(* funds_t, quantity_t and orderid_t are unsigned 32-bit integers in the   *)
(* program.  TLC's integers are signed 32-bit, so the machine word is      *)
(* modelled WordBits wide and every unsigned operation is taken modulo     *)
(* Word = 2^WordBits, exactly as the C arithmetic is taken modulo 2^32.    *)
(*                                                                         *)
(* A request handler of the servicer is one step.  DEPOSIT, WITHDRAW,      *)
(* ESCROW and RELEASE take the account's mutex only and run at any time.   *)
(* BUY, SELL and CANCEL work on the order book under the exchange mutex,   *)
(* so they wait while the matchmaker is inside a pass; exchange_post_buy   *)
(* and exchange_post_sell encumber the account just before they take the   *)
(* mutex, and the step stands for both.  The servicer's teardown, a        *)
(* broadcast's sends and the matchmaker's pass are several steps, because  *)
(* other threads run between them.  Every step records in out the         *)
(* packets it writes, and a thread inside trader_broadcast_packet keeps    *)
(* its packet in bpkt until the last recipient is served.                  *)
(*                                                                         *)
(* trader structures live in a heap of Slots; free() leaves the slot's     *)
(* bytes behind and malloc() may hand the slot out again, so a pointer     *)
(* kept after the final unref is dangling.  Using a dangling pointer is    *)
(* undefined: the step either aborts the process or goes on with whatever  *)
(* the slot holds now.                                                     *)
(***************************************************************************)
EXTENDS Integers, Sequences, FiniteSets

\* ------------------------------------------------------------- bounds
WordBits == 3
MaxConns == 2
MaxSlots == 2
MaxOrders == 2
MaxDeposits == 1
MaxEscrows == 1
MaxAcctThreads == 2

\* ---------------------------------------------------- program constants
\* the capacities of trader_map[] and account_map[]; their #define lines are
\* in trader.h and account.h
MAX_TRADERS == 64
MAX_ACCOUNTS == 64

Word == 2 ^ WordBits
Names == {"alice", "bob"}
NoName == "none"
Conns == 1 .. MaxConns
Fds == 1 .. MaxConns
Slots == 1 .. MaxSlots
Matchmaker == 0
Threads == {Matchmaker} \cup Conns

\* the values a client puts in its requests
DepositAmounts == {Word \div 2}
WithdrawAmounts == {Word \div 2}
EscrowAmounts == {2}
ReleaseAmounts == {2}
DecreaseAmounts == {2, 3}
FundedBalances == {Word \div 2, Word - 1}
FundedInventories == {2}
HeldAmounts == {0, Word \div 2, Word - 1}
AnyQuantities == {0, 1, 2}
AnyPrices == {0, Word \div 4, Word \div 2}
Quantities == {2}
Prices == {Word \div 4, Word \div 2}

\* unsigned arithmetic of the machine word
UAdd(x, y) == (x + y) % Word
USub(x, y) == (x - y + Word) % Word
UMul(x, y) == (x * y) % Word

VARIABLES
    balance,            \* account->balance, by account name
    inventory,          \* account->inventory, by account name
    account_map,        \* names that have an account, in creation order
    heap,               \* struct trader, by slot
    trader_map,         \* trader_map[0 .. trader_count-1], slots
    conn,               \* brs_client_service's locals, by connection
    fdtab,              \* the descriptor table: the socket open on fd, 0 if none
    creg,               \* client_registry->fds[0 .. count-1]
    empty_sem,          \* client_registry->empty_sem
    buy_orders,         \* xchg->buy_orders, head first
    sell_orders,        \* xchg->sell_orders, head first
    last_trade_price,   \* xchg->last_trade_price
    next_order_id,      \* xchg->next_order_id
    matchmaker_sem,     \* xchg->matchmaker_sem
    mm,                 \* matchmaker_thread_func's position and locals
    bcast,              \* trader_broadcast_packet's traders[] still to send, by thread
    crashed,            \* the process has aborted
    acct,               \* account harness: each thread's position in its call
    acct_mutex,         \* account harness: holder of account->mutex, 0 if free
    pricing,            \* pricing harness: low, high, last and the price computed
    driver,             \* shutdown harness: the main thread's position
    held_by,            \* lock harness: the thread that holds each mutex
    prog,               \* lock harness: what is left of each thread's call
    cash_net,           \* history: deposited - withdrawn + proceeds - paid, by account
    share_net,          \* history: escrowed - released + bought - sold, by account
    ndeposit,           \* history: DEPOSIT requests served
    nescrow,            \* history: ESCROW requests served
    closes,             \* history: close() calls on fd since accept returned it
    out,                \* the packets the last step wrote, in the order written
    bpkt                \* trader_broadcast_packet's pkt and data, by thread

vars == << balance, inventory, account_map, heap, trader_map, conn, fdtab, creg, empty_sem,
           buy_orders, sell_orders, last_trade_price, next_order_id,
           matchmaker_sem, mm, bcast, crashed, acct, acct_mutex, pricing, driver,
           held_by, prog,
           cash_net, share_net, ndeposit, nescrow, closes, out, bpkt >>

accountVars == << balance, inventory, account_map >>
sessionVars == << heap, trader_map, conn, fdtab, creg, empty_sem, closes >>
exchangeVars == << buy_orders, sell_orders, last_trade_price, next_order_id,
                   matchmaker_sem, mm >>
historyVars == << cash_net, share_net, ndeposit, nescrow >>
lockVars == << held_by, prog >>
harnessVars == << acct, acct_mutex, pricing, driver, lockVars >>

\* ------------------------------------------------------------ sequences
Range(s) == {s[i] : i \in 1 .. Len(s)}

RemoveAt(s, i) == SubSeq(s, 1, i - 1) \o SubSeq(s, i + 1, Len(s))

\* the array idiom of trader_logout and creg_unregister: the last element is
\* moved into the position of the first match, and the count drops by one
SwapRemove(s, x) ==
    IF x \notin Range(s) THEN s
    ELSE LET i == CHOOSE k \in 1 .. Len(s) :
                      s[k] = x /\ \A j \in 1 .. k - 1 : s[j] # x
         IN  SubSeq([s EXCEPT ![i] = s[Len(s)]], 1, Len(s) - 1)

\* ------------------------------------------------------------- accounts
\* a lookup that makes a new account every time
account_lookup_fresh(map, name) == Append(map, name)

account_lookup(map, name) ==
    IF name \in Range(map) THEN map
    ELSE IF Len(map) >= MAX_ACCOUNTS THEN map
    ELSE Append(map, name)

account_lookup_ok(map, name) == name \in Range(map) \/ Len(map) < MAX_ACCOUNTS

account_increase_balance(bal, a, amount) == [bal EXCEPT ![a] = UAdd(@, amount)]

account_decrease_ok(value, amount) == value >= amount

account_decrease_balance(bal, a, amount) ==
    IF account_decrease_ok(bal[a], amount)
    THEN [bal EXCEPT ![a] = USub(@, amount)]
    ELSE bal

account_increase_inventory(inv, a, quantity) == [inv EXCEPT ![a] = UAdd(@, quantity)]

account_decrease_inventory(inv, a, quantity) ==
    IF account_decrease_ok(inv[a], quantity)
    THEN [inv EXCEPT ![a] = USub(@, quantity)]
    ELSE inv

\* ------------------------------------------------------- trader sessions
\* The part of the state that trader_ref / trader_unref can touch, threaded
\* through the calls of one step.  ub is the step's choice for a use of a
\* dangling pointer: TRUE aborts, FALSE goes on with the slot as it is.
Mem == [heap |-> heap, fdtab |-> fdtab, closes |-> closes, crashed |-> FALSE]

FreeSlot == [live |-> FALSE, fd |-> 0, name |-> NoName, refcount |-> 0]

close(m, fd) ==
    [m EXCEPT !.fdtab[fd] = 0, !.closes[fd] = @ + 1]

trader_ref(m, s, ub) ==
    IF m.crashed THEN m
    ELSE IF ~m.heap[s].live
    THEN IF ub THEN [m EXCEPT !.crashed = TRUE] ELSE m
    ELSE [m EXCEPT !.heap[s].refcount = @ + 1]

trader_unref(m, s, ub) ==
    IF m.crashed THEN m
    ELSE IF ~m.heap[s].live
    THEN IF ub THEN [m EXCEPT !.crashed = TRUE] ELSE m
    ELSE IF m.heap[s].refcount - 1 < 0
    THEN [m EXCEPT !.crashed = TRUE]
    ELSE IF m.heap[s].refcount - 1 = 0
    THEN close([m EXCEPT !.heap[s].live = FALSE, !.heap[s].refcount = 0],
               m.heap[s].fd)
    ELSE [m EXCEPT !.heap[s].refcount = @ - 1]

\* a use of the session that only reads it (trader_get_account, trader_send_packet)
trader_use(m, s, ub) ==
    IF ~m.crashed /\ ~m.heap[s].live /\ ub THEN [m EXCEPT !.crashed = TRUE] ELSE m

RECURSIVE RefAll(_, _, _)
RefAll(m, ts, ub) ==
    IF ts = << >> THEN m ELSE RefAll(trader_ref(m, Head(ts), ub), Tail(ts), ub)

\* the end of a step that did not abort: its effects on the sessions are installed
Commit(m) ==
    /\ heap' = m.heap
    /\ fdtab' = m.fdtab
    /\ closes' = m.closes
    /\ crashed' = FALSE

\* trader_login's result for a slot malloc() returned: the session it builds
NewTrader(fd, name) == [live |-> TRUE, fd |-> fd, name |-> name, refcount |-> 1]

\* ------------------------------------------------------------- packets
\* a packet as proto_send_packet writes it: the header's type, the descriptor
\* written to, and the payload's fields (BRS_NOTIFY_INFO: buyer, seller,
\* quantity, price; BRS_STATUS_INFO: orderid, quantity); unused fields are 0
Packet(type, fd, buyer, seller, orderid, quantity, price) ==
    [type |-> type, fd |-> fd, buyer |-> buyer, seller |-> seller,
     orderid |-> orderid, quantity |-> quantity, price |-> price]

NoPacket == Packet("none", 0, 0, 0, 0, 0, 0)

\* a notification that leaves the price field 0
notify_without_price(type, fd, buyer, seller, quantity, price) ==
    Packet(type, fd, buyer, seller, 0, quantity, 0)

\* BRS_NOTIFY_INFO of a POSTED, CANCELED, TRADED, BOUGHT or SOLD packet
Notify(type, fd, buyer, seller, quantity, price) ==
    Packet(type, fd, buyer, seller, 0, quantity, price)

\* trader_send_ack / trader_send_nack: the packet goes to trader->fd
trader_send_ack(s, orderid, quantity) ==
    Packet("ACK", heap[s].fd, 0, 0, orderid, quantity, 0)

trader_send_nack(s) == Packet("NACK", heap[s].fd, 0, 0, 0, 0, 0)

\* ---------------------------------------------------------------- Init
IdleConn == [pc |-> "idle", fd |-> 0, trader |-> 0, username |-> NoName]
MmIdle == [pc |-> "wait", freed |-> << >>]
NoPricing == [low |-> 0, high |-> 0, last |-> 0, price |-> 0, done |-> FALSE]
\* the main thread in its accept loop; since: the connections registered when
\* it called creg_wait_for_empty; shut: the descriptors it has half-closed
DriverIdle == [pc |-> "accept", since |-> {}, shut |-> {}]

\* the threads of the lock harness: the servicers, the matchmaker and the main
\* thread in terminate
Driver == MaxConns + 1
LkThreads == Threads \cup {Driver}
Nobody == MaxConns + 2
\* account_map_mutex, trader_map_mutex, xchg->mutex, and the mutex of every
\* session and of every account
Mutexes == {<< "account_map", 0 >>, << "trader_map", 0 >>, << "exchange", 0 >>}
              \cup {<< "session", s >> : s \in Conns}
              \cup {<< "account", a >> : a \in Conns}
LocksIdle ==
    /\ held_by = [m \in Mutexes |-> Nobody]
    /\ prog = [t \in LkThreads |-> << >>]
AcctIdle == [pc |-> "idle", field |-> "none", amount |-> 0, before |-> 0,
             after |-> 0, result |-> "none"]
AcctThreads == 1 .. MaxAcctThreads

NoFunds == [a \in Names |-> 0]
EmptyHeap == [s \in Slots |-> FreeSlot]
NoConns == [c \in Conns |-> IdleConn]
NoFds == [f \in Fds |-> 0]
NoBroadcast == [t \in Threads |-> << >>]
\* the packet trader_broadcast_packet holds while it sends: none once the
\* snapshot of the session map turns out empty
broadcast_packet(pkt) == IF trader_map = << >> THEN NoPacket ELSE pkt

NoPackets == [t \in Threads |-> NoPacket]

ServerInit ==
    /\ balance = NoFunds
    /\ inventory = NoFunds
    /\ account_map = << >>
    /\ heap = EmptyHeap
    /\ trader_map = << >>
    /\ conn = NoConns
    /\ fdtab = NoFds
    /\ creg = << >>
    /\ empty_sem = 0
    /\ buy_orders = << >>
    /\ sell_orders = << >>
    /\ last_trade_price = 0
    /\ next_order_id = 1
    /\ matchmaker_sem = 0
    /\ mm = MmIdle
    /\ bcast = NoBroadcast
    /\ crashed = FALSE
    /\ cash_net = NoFunds
    /\ share_net = NoFunds
    /\ ndeposit = 0
    /\ nescrow = 0
    /\ closes = NoFds
    /\ out = << >>
    /\ bpkt = NoPackets

\* abort(), or a fault on a dangling pointer: the process is gone, and with it
\* all of the server's state, which lives in its memory only
Abort ==
    /\ crashed' = TRUE
    /\ balance' = NoFunds
    /\ inventory' = NoFunds
    /\ account_map' = << >>
    /\ heap' = EmptyHeap
    /\ trader_map' = << >>
    /\ conn' = NoConns
    /\ fdtab' = NoFds
    /\ creg' = << >>
    /\ empty_sem' = 0
    /\ buy_orders' = << >>
    /\ sell_orders' = << >>
    /\ last_trade_price' = 0
    /\ next_order_id' = 1
    /\ matchmaker_sem' = 0
    /\ mm' = MmIdle
    /\ bcast' = NoBroadcast
    /\ cash_net' = NoFunds
    /\ share_net' = NoFunds
    /\ ndeposit' = 0
    /\ nescrow' = 0
    /\ closes' = NoFds
    /\ out' = << >>
    /\ bpkt' = NoPackets
    /\ UNCHANGED harnessVars

HarnessIdle ==
    /\ acct = [t \in AcctThreads |-> AcctIdle]
    /\ acct_mutex = 0
    /\ pricing = NoPricing
    /\ driver = DriverIdle
    /\ LocksIdle

Init == ServerInit /\ HarnessIdle

\* ------------------------------------------------- accept loop (main.c)
\* accept() returns the lowest descriptor not in use; the new thread
\* registers it with the client registry before its loop.  Connections are
\* numbered in the order they are accepted, and each is served once.
LowestFreeFd == CHOOSE f \in Fds : fdtab[f] = 0 /\ \A g \in Fds : g < f => fdtab[g] # 0

Accept(c) ==
    /\ ~crashed
    /\ conn[c].pc = "idle"
    /\ \A d \in Conns : d < c => conn[d].pc # "idle"
    /\ \E f \in Fds : fdtab[f] = 0
    /\ LET fd == LowestFreeFd IN
         /\ fdtab' = [fdtab EXCEPT ![fd] = c]
         /\ closes' = [closes EXCEPT ![fd] = 0]
         /\ creg' = Append(creg, fd)
         /\ UNCHANGED empty_sem
         /\ conn' = [conn EXCEPT ![c] = [IdleConn EXCEPT !.pc = "recv", !.fd = fd]]
    /\ out' = << >>
    /\ UNCHANGED bpkt
    /\ UNCHANGED << accountVars, heap, trader_map, exchangeVars, bcast, crashed,
                    historyVars, harnessVars >>

\* ------------------------------------------- connection servicer (server.c)
\* the servicer is in proto_recv_packet and the descriptor it reads is open
Receiving(c) ==
    /\ ~crashed
    /\ conn[c].pc = "recv"
    /\ bcast[c] = << >>
    /\ fdtab[conn[c].fd] # 0

LoggedIn(c) == Receiving(c) /\ conn[c].trader # 0

\* xchg->running: set by exchange_init, cleared by exchange_fini
running == driver.pc \notin {"join", "finalized"}

\* the exchange mutex is free: the matchmaker is not inside a pass
ExchangeFree == mm.pc \in {"wait", "exited"}

\* LOGIN from a connection that is not logged in.  trader_login refuses when
\* the map is full, when malloc fails or when account_lookup fails.  Account
\* names are numbered in the order of their first login.
\* malloc(sizeof(struct trader)) may return s: the slot is not in use.  Slots
\* never handed out yet are alike, so of those only the lowest is returned.
malloc_trader(s) ==
    /\ ~heap[s].live
    /\ heap[s] = FreeSlot => \A r \in Slots : r < s => heap[r] # FreeSlot

trader_login_ok(name) ==
    /\ Len(trader_map) < MAX_TRADERS
    /\ \E s \in Slots : malloc_trader(s)
    /\ account_lookup_ok(account_map, name)

Login(c, name) ==
    /\ Receiving(c)
    /\ conn[c].trader = 0
    /\ (name # "alice" => account_map # << >>)
    /\ IF trader_login_ok(name)
       THEN \E s \in Slots :
              /\ malloc_trader(s)
              /\ heap' = [heap EXCEPT ![s] = NewTrader(conn[c].fd, name)]
              /\ account_map' = account_lookup(account_map, name)
              /\ trader_map' = Append(trader_map, s)
              /\ conn' = [conn EXCEPT ![c].trader = s, ![c].username = name]
       ELSE UNCHANGED << heap, account_map, trader_map, conn >>
    /\ out' = << IF trader_login_ok(name)
                THEN Packet("ACK", conn[c].fd, 0, 0, 0, 0, 0)
                ELSE Packet("NACK", conn[c].fd, 0, 0, 0, 0, 0) >>
    /\ UNCHANGED bpkt
    /\ UNCHANGED << balance, inventory, fdtab, creg, empty_sem, closes, exchangeVars, bcast,
                    crashed, historyVars, harnessVars >>

\* proto_recv_packet fails (the client closed, or the read failed): the loop ends
Eof(c) ==
    /\ ~crashed
    /\ conn[c].pc = "recv"
    /\ bcast[c] = << >>
    /\ conn' = [conn EXCEPT ![c].pc = "cleanup"]
    /\ out' = << >>
    /\ UNCHANGED bpkt
    /\ UNCHANGED << accountVars, heap, trader_map, fdtab, creg, empty_sem, closes, exchangeVars,
                    bcast, crashed, historyVars, harnessVars >>

\* cleanup, first call: trader_logout(trader), which takes the session out of
\* trader_map and unrefs it
trader_logout(c) ==
    /\ ~crashed
    /\ conn[c].pc = "cleanup"
    /\ conn[c].trader # 0
    /\ \E ub \in BOOLEAN :
         LET s == conn[c].trader
             m == trader_unref(Mem, s, ub)
         IN  IF m.crashed THEN Abort
             ELSE /\ Commit(m)
                  /\ trader_map' = SwapRemove(trader_map, s)
                  /\ conn' = [conn EXCEPT ![c].pc = "unref"]
                  /\ out' = << >>
                  /\ UNCHANGED bpkt
                  /\ UNCHANGED << accountVars, creg, empty_sem, exchangeVars, bcast,
                                  historyVars, harnessVars >>

\* cleanup, second call: trader_unref(trader, "client disconnect")
DisconnectUnref(c) ==
    /\ ~crashed
    /\ conn[c].pc = "unref"
    /\ \E ub \in BOOLEAN :
         LET m == trader_unref(Mem, conn[c].trader, ub)
         IN  IF m.crashed THEN Abort
             ELSE /\ Commit(m)
                  /\ conn' = [conn EXCEPT ![c].pc = "close"]
                  /\ out' = << >>
                  /\ UNCHANGED bpkt
                  /\ UNCHANGED << accountVars, trader_map, creg, empty_sem, exchangeVars, bcast,
                                  historyVars, harnessVars >>

\* cleanup of a connection that never logged in: nothing to log out
SkipLogout(c) ==
    /\ ~crashed
    /\ conn[c].pc = "cleanup"
    /\ conn[c].trader = 0
    /\ conn' = [conn EXCEPT ![c].pc = "close"]
    /\ out' = << >>
    /\ UNCHANGED bpkt
    /\ UNCHANGED << accountVars, heap, trader_map, fdtab, creg, empty_sem, closes, exchangeVars,
                    bcast, crashed, historyVars, harnessVars >>

\* cleanup, last calls: creg_unregister(client_registry, fd); close(fd)
CloseConn(c) ==
    /\ ~crashed
    /\ conn[c].pc = "close"
    /\ creg' = SwapRemove(creg, conn[c].fd)
    /\ empty_sem' = IF conn[c].fd \in Range(creg) /\ creg' = << >>
                    THEN empty_sem + 1 ELSE empty_sem
    /\ Commit(close(Mem, conn[c].fd))
    /\ conn' = [conn EXCEPT ![c].pc = "gone"]
    /\ out' = << >>
    /\ UNCHANGED bpkt
    /\ UNCHANGED << accountVars, trader_map, exchangeVars, bcast, historyVars,
                    harnessVars >>

\* DEPOSIT, WITHDRAW, ESCROW, RELEASE from a logged-in connection.  The account
\* is the one the session points to (trader_get_account); the history is kept
\* for the name the connection logged in with.
Deposit(c, amount) ==
    /\ LoggedIn(c)
    /\ ndeposit < MaxDeposits
    /\ \E ub \in BOOLEAN :
         LET m == trader_use(Mem, conn[c].trader, ub)
             a == heap[conn[c].trader].name
         IN  IF m.crashed THEN Abort
             ELSE /\ balance' = account_increase_balance(balance, a, amount)
                  /\ cash_net' = [cash_net EXCEPT ![conn[c].username] = @ + amount]
                  /\ ndeposit' = ndeposit + 1
                  /\ out' = << trader_send_ack(conn[c].trader, 0, 0) >>
                  /\ UNCHANGED bpkt
                  /\ UNCHANGED << inventory, account_map, sessionVars, exchangeVars,
                                  bcast, crashed, share_net, nescrow, harnessVars >>

Withdraw(c, amount) ==
    /\ LoggedIn(c)
    /\ \E ub \in BOOLEAN :
         LET m == trader_use(Mem, conn[c].trader, ub)
             a == heap[conn[c].trader].name
             ok == account_decrease_ok(balance[a], amount)
         IN  IF m.crashed THEN Abort
             ELSE /\ balance' = account_decrease_balance(balance, a, amount)
                  /\ cash_net' = IF ok
                       THEN [cash_net EXCEPT ![conn[c].username] = @ - amount]
                       ELSE cash_net
                  /\ out' = << IF ok THEN trader_send_ack(conn[c].trader, 0, 0)
                              ELSE trader_send_nack(conn[c].trader) >>
                  /\ UNCHANGED bpkt
                  /\ UNCHANGED << inventory, account_map, sessionVars, exchangeVars,
                                  bcast, crashed, share_net, ndeposit, nescrow,
                                  harnessVars >>

Escrow(c, quantity) ==
    /\ LoggedIn(c)
    /\ nescrow < MaxEscrows
    /\ \E ub \in BOOLEAN :
         LET m == trader_use(Mem, conn[c].trader, ub)
             a == heap[conn[c].trader].name
         IN  IF m.crashed THEN Abort
             ELSE /\ inventory' = account_increase_inventory(inventory, a, quantity)
                  /\ share_net' = [share_net EXCEPT ![conn[c].username] = @ + quantity]
                  /\ nescrow' = nescrow + 1
                  /\ out' = << trader_send_ack(conn[c].trader, 0, 0) >>
                  /\ UNCHANGED bpkt
                  /\ UNCHANGED << balance, account_map, sessionVars, exchangeVars,
                                  bcast, crashed, cash_net, ndeposit, harnessVars >>

Release(c, quantity) ==
    /\ LoggedIn(c)
    /\ \E ub \in BOOLEAN :
         LET m == trader_use(Mem, conn[c].trader, ub)
             a == heap[conn[c].trader].name
             ok == account_decrease_ok(inventory[a], quantity)
         IN  IF m.crashed THEN Abort
             ELSE /\ inventory' = account_decrease_inventory(inventory, a, quantity)
                  /\ share_net' = IF ok
                       THEN [share_net EXCEPT ![conn[c].username] = @ - quantity]
                       ELSE share_net
                  /\ out' = << IF ok THEN trader_send_ack(conn[c].trader, 0, 0)
                              ELSE trader_send_nack(conn[c].trader) >>
                  /\ UNCHANGED bpkt
                  /\ UNCHANGED << balance, account_map, sessionVars, exchangeVars,
                                  bcast, crashed, cash_net, ndeposit, nescrow,
                                  harnessVars >>

\* a servicer that goes back to its loop without answering
refuse_silently(c) ==
    /\ out' = << >>
    /\ UNCHANGED << accountVars, sessionVars, exchangeVars, bcast, crashed,
                    historyVars, harnessVars, bpkt >>

\* the servicer's answer to a request the exchange refused: trader_send_nack,
\* and nothing else
Refuse(c) ==
    /\ out' = << trader_send_nack(conn[c].trader) >>
    /\ UNCHANGED << accountVars, sessionVars, exchangeVars, bcast, crashed,
                    historyVars, harnessVars, bpkt >>

\* a servicer that drops such a packet without a reply
pre_login_drop(c) ==
    /\ Receiving(c)
    /\ conn[c].trader = 0
    /\ out' = << >>
    /\ UNCHANGED << accountVars, sessionVars, exchangeVars, bcast, crashed,
                    historyVars, harnessVars, bpkt >>

\* a packet other than LOGIN, or a LOGIN without payload, from a connection
\* that is not logged in: the NACK is written to fd with proto_send_packet
PreLoginRefuse(c) ==
    /\ Receiving(c)
    /\ conn[c].trader = 0
    /\ out' = << Packet("NACK", conn[c].fd, 0, 0, 0, 0, 0) >>
    /\ UNCHANGED << accountVars, sessionVars, exchangeVars, bcast, crashed,
                    historyVars, harnessVars, bpkt >>

\* from a logged-in client, a second LOGIN, a request whose payload size is
\* wrong, or a packet of unknown type: trader_send_nack, and nothing else
BadRequest(c) ==
    /\ LoggedIn(c)
    /\ \E ub \in BOOLEAN :
         IF trader_use(Mem, conn[c].trader, ub).crashed THEN Abort ELSE Refuse(c)

\* ---------------------------------------------------- exchange (exchange.c)
\* struct order; owner is history: the name whose funds or shares back the order
Order(id, s, type, quantity, price, owner) ==
    [id |-> id, trader |-> s, type |-> type, quantity |-> quantity, price |-> price,
     owner |-> owner]

\* an exchange that books whatever it is sent
post_args_any(quantity, price) == TRUE

\* exchange_post_buy / exchange_post_sell refuse before anything is touched
post_args_ok(quantity, price) == quantity # 0 /\ price # 0

\* trader_broadcast_packet up to the release of trader_map_mutex: one reference
\* on every session of the map; the sends follow, one step each (BroadcastSend)
broadcast_snapshot(m, ub) == RefAll(m, trader_map, ub)

\* order->id = xchg->next_order_id++, in orderid_t
next_id(id) == UAdd(id, 1)

\* the posts the model follows: the first MaxOrders of an exchange, and the
\* two that take the counter through the end of its range
PostableIds == (1 .. MaxOrders) \cup {Word - 1, 0}

\* BUY: exchange_post_buy, then the POSTED broadcast's snapshot unless the
\* servicer takes the id for a failure (order_id == 0)
PostBuy(c, quantity, price) ==
    /\ LoggedIn(c)
    /\ ExchangeFree
    /\ next_order_id \in PostableIds
    /\ \E ub \in BOOLEAN :
         LET s == conn[c].trader
             a == heap[s].name
             max_cost == UMul(quantity, price)
             ok == post_args_ok(quantity, price)
                     /\ account_decrease_ok(balance[a], max_cost)
             m == IF ok /\ next_order_id # 0
                  THEN broadcast_snapshot(trader_ref(trader_use(Mem, s, ub), s, ub), ub)
                  ELSE IF ok THEN trader_ref(trader_use(Mem, s, ub), s, ub)
                  ELSE trader_use(Mem, s, ub)
         IN  IF m.crashed THEN Abort
             ELSE IF ~ok THEN Refuse(c)
             ELSE /\ Commit(m)
                  /\ balance' = account_decrease_balance(balance, a, max_cost)
                  /\ buy_orders' =
                       << Order(next_order_id, s, "BUY", quantity, price, conn[c].username) >>
                         \o buy_orders
                  /\ next_order_id' = next_id(next_order_id)
                  /\ matchmaker_sem' = matchmaker_sem + 1
                  /\ bcast' = IF next_order_id = 0 THEN bcast
                              ELSE [bcast EXCEPT ![c] = trader_map]
                  /\ out' = IF next_order_id = 0 THEN << trader_send_nack(s) >>
                            ELSE IF trader_map = << >>
                            THEN << trader_send_ack(s, next_order_id, 0) >> ELSE << >>
                  /\ bpkt' = IF next_order_id = 0 THEN bpkt
                             ELSE [bpkt EXCEPT ![c] = broadcast_packet(
                                     Notify("POSTED", 0, next_order_id, 0, quantity, price))]
                  /\ UNCHANGED << inventory, account_map, trader_map, conn, creg, empty_sem,
                                  sell_orders, last_trade_price, mm, historyVars,
                                  harnessVars >>

\* SELL: exchange_post_sell, then the ACK and the POSTED broadcast's snapshot
\* unless the servicer takes the id for a failure (order_id == 0)
PostSell(c, quantity, price) ==
    /\ LoggedIn(c)
    /\ ExchangeFree
    /\ next_order_id \in PostableIds
    /\ \E ub \in BOOLEAN :
         LET s == conn[c].trader
             a == heap[s].name
             ok == post_args_ok(quantity, price)
                     /\ account_decrease_ok(inventory[a], quantity)
             m == IF ok /\ next_order_id # 0
                  THEN broadcast_snapshot(trader_ref(trader_use(Mem, s, ub), s, ub), ub)
                  ELSE IF ok THEN trader_ref(trader_use(Mem, s, ub), s, ub)
                  ELSE trader_use(Mem, s, ub)
         IN  IF m.crashed THEN Abort
             ELSE IF ~ok THEN Refuse(c)
             ELSE /\ Commit(m)
                  /\ inventory' = account_decrease_inventory(inventory, a, quantity)
                  /\ sell_orders' =
                       << Order(next_order_id, s, "SELL", quantity, price, conn[c].username) >>
                         \o sell_orders
                  /\ next_order_id' = next_id(next_order_id)
                  /\ matchmaker_sem' = matchmaker_sem + 1
                  /\ bcast' = IF next_order_id = 0 THEN bcast
                              ELSE [bcast EXCEPT ![c] = trader_map]
                  /\ out' = << IF next_order_id = 0 THEN trader_send_nack(s)
                               ELSE trader_send_ack(s, next_order_id, 0) >>
                  /\ bpkt' = IF next_order_id = 0 THEN bpkt
                             ELSE [bpkt EXCEPT ![c] = broadcast_packet(
                                     Notify("POSTED", 0, 0, next_order_id, quantity, price))]
                  /\ UNCHANGED << balance, account_map, trader_map, conn, creg, empty_sem,
                                  buy_orders, last_trade_price, mm, historyVars,
                                  harnessVars >>

\* a servicer that writes nothing once its broadcast has returned
no_ack_after(t) == << >>

\* what the servicer writes once its broadcast has returned: after the POSTED
\* of a BUY and after the CANCELED of a CANCEL, the ACK of the request
ack_after(t) ==
    IF t = Matchmaker \/ Tail(bcast[t]) # << >> THEN << >>
    ELSE IF bpkt[t].type = "POSTED" /\ bpkt[t].buyer # 0
    THEN << trader_send_ack(conn[t].trader, bpkt[t].buyer, 0) >>
    ELSE IF bpkt[t].type = "CANCELED"
    THEN << trader_send_ack(conn[t].trader, bpkt[t].buyer + bpkt[t].seller,
                            bpkt[t].quantity) >>
    ELSE << >>

\* the sends of a broadcast, one recipient a step: trader_send_packet, then
\* trader_unref(traders[i], "broadcast")
BroadcastSend(t) ==
    /\ ~crashed
    /\ bcast[t] # << >>
    /\ \E ub \in BOOLEAN :
         LET s == Head(bcast[t])
             m == trader_unref(trader_use(Mem, s, ub), s, ub)
         IN  IF m.crashed THEN Abort
             ELSE /\ Commit(m)
                  /\ bcast' = [bcast EXCEPT ![t] = Tail(@)]
                  /\ out' = << [bpkt[t] EXCEPT !.fd = heap[s].fd] >> \o ack_after(t)
                  /\ bpkt' = IF Tail(bcast[t]) = << >> THEN [bpkt EXCEPT ![t] = NoPacket] ELSE bpkt
                  /\ UNCHANGED << accountVars, trader_map, conn, creg, empty_sem, exchangeVars,
                                  historyVars, harnessVars >>

\* the position in a book side of the order with this id, 0 if none
RECURSIVE find_order(_, _, _)
find_order(list, id, i) ==
    IF i > Len(list) THEN 0
    ELSE IF list[i].id = id THEN i
    ELSE find_order(list, id, i + 1)

\* CANCEL: exchange_cancel, then (on success) the CANCELED broadcast's snapshot
Cancel(c, id) ==
    /\ LoggedIn(c)
    /\ ExchangeFree
    /\ \E ub \in BOOLEAN :
         LET s == conn[c].trader
             b == find_order(buy_orders, id, 1)
             l == find_order(sell_orders, id, 1)
             inbuy == b # 0
             found == IF inbuy THEN buy_orders[b]
                      ELSE IF l # 0 THEN sell_orders[l]
                      ELSE Order(0, 0, "BUY", 0, 0, NoName)
             ok == found.id # 0 /\ found.trader = s
             a == heap[s].name
             m == IF ok
                  THEN broadcast_snapshot(
                         trader_unref(trader_use(Mem, s, ub), found.trader, ub), ub)
                  ELSE Mem
         IN  IF m.crashed THEN Abort
             ELSE IF ~ok THEN Refuse(c)
             ELSE /\ Commit(m)
                  /\ buy_orders' = IF inbuy THEN RemoveAt(buy_orders, b) ELSE buy_orders
                  /\ sell_orders' = IF inbuy THEN sell_orders
                                    ELSE RemoveAt(sell_orders, l)
                  /\ balance' = IF inbuy
                       THEN account_increase_balance(balance, a,
                                                     UMul(found.quantity, found.price))
                       ELSE balance
                  /\ inventory' = IF inbuy THEN inventory
                       ELSE account_increase_inventory(inventory, a, found.quantity)
                  /\ bcast' = [bcast EXCEPT ![c] = trader_map]
                  /\ out' = IF trader_map = << >>
                             THEN << trader_send_ack(s, id, found.quantity) >> ELSE << >>
                  /\ bpkt' = [bpkt EXCEPT ![c] = broadcast_packet(
                                IF inbuy THEN Notify("CANCELED", 0, id, 0, found.quantity, 0)
                                ELSE Notify("CANCELED", 0, 0, id, found.quantity, 0))]
                  /\ UNCHANGED << account_map, trader_map, conn, creg, empty_sem,
                                  last_trade_price, next_order_id, matchmaker_sem, mm,
                                  historyVars, harnessVars >>

\* find_best_buy / find_best_sell: a scan from the head that keeps the first
\* order strictly better than the best so far; the result is a position, 0 for NULL
RECURSIVE scan_best_buy(_, _, _)
scan_best_buy(list, i, best) ==
    IF i > Len(list) THEN best
    ELSE scan_best_buy(list, i + 1,
           IF best = 0 \/ list[i].price > list[best].price THEN i ELSE best)

find_best_buy(list) == scan_best_buy(list, 1, 0)

RECURSIVE scan_best_sell(_, _, _)
scan_best_sell(list, i, best) ==
    IF i > Len(list) THEN best
    ELSE scan_best_sell(list, i + 1,
           IF best = 0 \/ list[i].price < list[best].price THEN i ELSE best)

find_best_sell(list) == scan_best_sell(list, 1, 0)

\* a test that would end the pass on equal prices too
no_match_stop(buy_price, sell_price) == buy_price <= sell_price

\* the matchmaker's test that ends a pass: the best pair does not match
no_match(buy_price, sell_price) == buy_price < sell_price

\* the trade price of a matching pair
trade_price(min_price, max_price, last) ==
    IF last = 0 THEN UAdd(min_price, max_price) \div 2
    ELSE IF last >= min_price /\ last <= max_price THEN last
    ELSE IF last < min_price THEN min_price
    ELSE max_price

\* a test that lets a pair trade only when the bid exceeds the ask
matching_strictly ==
    /\ find_best_buy(buy_orders) # 0
    /\ find_best_sell(sell_orders) # 0
    /\ buy_orders[find_best_buy(buy_orders)].price
         > sell_orders[find_best_sell(sell_orders)].price

Matching ==
    /\ find_best_buy(buy_orders) # 0
    /\ find_best_sell(sell_orders) # 0
    /\ ~no_match(buy_orders[find_best_buy(buy_orders)].price,
                 sell_orders[find_best_sell(sell_orders)].price)

\* sem_wait returns; the matchmaker leaves its loop if running is cleared and
\* takes the exchange mutex otherwise
MatchmakerWake ==
    /\ ~crashed
    /\ mm.pc = "wait"
    /\ matchmaker_sem > 0
    /\ matchmaker_sem' = matchmaker_sem - 1
    /\ mm' = [mm EXCEPT !.pc = IF running THEN "match" ELSE "exited"]
    /\ out' = << >>
    /\ UNCHANGED bpkt
    /\ UNCHANGED << accountVars, sessionVars, buy_orders, sell_orders,
                    last_trade_price, next_order_id, bcast, crashed,
                    historyVars, harnessVars >>

\* one turn of the matching loop up to the TRADED broadcast's snapshot: the
\* trade, the accounts, the removal of filled orders, BOUGHT and SOLD
MatchmakerTrade ==
    /\ ~crashed
    /\ mm.pc = "match"
    /\ Matching
    /\ \E ub \in BOOLEAN :
         LET bi == find_best_buy(buy_orders)
             si == find_best_sell(sell_orders)
             buy_order == buy_orders[bi]
             sell_order == sell_orders[si]
             price == trade_price(sell_order.price, buy_order.price, last_trade_price)
             trade_qty == IF sell_order.quantity < buy_order.quantity
                          THEN sell_order.quantity ELSE buy_order.quantity
             buy_left == USub(buy_order.quantity, trade_qty)
             sell_left == USub(sell_order.quantity, trade_qty)
             buyer_account == heap[buy_order.trader].name
             seller_account == heap[sell_order.trader].name
             refund == UMul(trade_qty, USub(buy_order.price, price))
             bal1 == account_increase_balance(balance, seller_account,
                                              UMul(price, trade_qty))
             bal2 == IF refund > 0
                     THEN account_increase_balance(bal1, buyer_account, refund)
                     ELSE bal1
             m == broadcast_snapshot(
                    trader_use(trader_use(Mem, buy_order.trader, ub),
                               sell_order.trader, ub), ub)
             paid == trade_qty * price
             cash1 == [cash_net EXCEPT ![sell_order.owner] = @ + paid]
             share1 == [share_net EXCEPT ![buy_order.owner] = @ + trade_qty]
         IN  IF m.crashed THEN Abort
             ELSE /\ Commit(m)
                  /\ balance' = bal2
                  /\ inventory' = account_increase_inventory(inventory,
                                                             buyer_account, trade_qty)
                  /\ buy_orders' = IF buy_left = 0 THEN RemoveAt(buy_orders, bi)
                                   ELSE [buy_orders EXCEPT ![bi].quantity = buy_left]
                  /\ sell_orders' = IF sell_left = 0 THEN RemoveAt(sell_orders, si)
                                    ELSE [sell_orders EXCEPT ![si].quantity = sell_left]
                  /\ last_trade_price' = price
                  /\ mm' = [pc |-> "bcast",
                            freed |-> (IF buy_left = 0 THEN << buy_order.trader >>
                                       ELSE << >>)
                                      \o (IF sell_left = 0 THEN << sell_order.trader >>
                                          ELSE << >>)]
                  /\ bcast' = [bcast EXCEPT ![Matchmaker] = trader_map]
                  /\ cash_net' = [cash1 EXCEPT ![buy_order.owner] = @ - paid]
                  /\ share_net' = [share1 EXCEPT ![sell_order.owner] = @ - trade_qty]
                  /\ out' = << Notify("BOUGHT", heap[buy_order.trader].fd, buy_order.id,
                                      sell_order.id, trade_qty, price),
                              Notify("SOLD", heap[sell_order.trader].fd, buy_order.id,
                                      sell_order.id, trade_qty, price) >>
                  /\ bpkt' = [bpkt EXCEPT ![Matchmaker] = broadcast_packet(
                                Notify("TRADED", 0, buy_order.id, sell_order.id,
                                       trade_qty, price))]
                  /\ UNCHANGED << account_map, trader_map, conn, creg, empty_sem, next_order_id,
                                  matchmaker_sem, ndeposit, nescrow, harnessVars >>

\* the end of the turn, after the TRADED sends: the owners of the filled
\* orders are unreferenced and the orders freed
RECURSIVE UnrefAll(_, _, _)
UnrefAll(m, ts, ub) ==
    IF ts = << >> THEN m ELSE UnrefAll(trader_unref(m, Head(ts), ub), Tail(ts), ub)

MatchmakerFree ==
    /\ ~crashed
    /\ mm.pc = "bcast"
    /\ bcast[Matchmaker] = << >>
    /\ \E ub \in BOOLEAN :
         LET m == UnrefAll(Mem, mm.freed, ub)
         IN  IF m.crashed THEN Abort
             ELSE /\ Commit(m)
                  /\ mm' = [pc |-> "match", freed |-> << >>]
                  /\ out' = << >>
                  /\ UNCHANGED bpkt
                  /\ UNCHANGED << accountVars, trader_map, conn, creg, empty_sem, buy_orders,
                                  sell_orders, last_trade_price, next_order_id,
                                  matchmaker_sem, bcast, historyVars, harnessVars >>

\* the loop's break and pthread_mutex_unlock: the pass is over, and the outer
\* loop reads running before it waits again
MatchmakerSleep ==
    /\ ~crashed
    /\ mm.pc = "match"
    /\ ~Matching
    /\ mm' = [mm EXCEPT !.pc = IF running THEN "wait" ELSE "exited"]
    /\ out' = << >>
    /\ UNCHANGED bpkt
    /\ UNCHANGED << accountVars, sessionVars, buy_orders, sell_orders,
                    last_trade_price, next_order_id, matchmaker_sem, bcast,
                    crashed, historyVars, harnessVars >>

\* ------------------------------------------------------------ the server
ServerNext ==
    \/ \E c \in Conns : PreLoginRefuse(c)
    \/ \E c \in Conns : BadRequest(c)
    \/ \E c \in Conns : Accept(c)
    \/ \E c \in Conns, name \in Names : Login(c, name)
    \/ \E c \in Conns : Eof(c)
    \/ \E c \in Conns : trader_logout(c)
    \/ \E c \in Conns : DisconnectUnref(c)
    \/ \E c \in Conns : SkipLogout(c)
    \/ \E c \in Conns : CloseConn(c)
    \/ \E c \in Conns, amount \in DepositAmounts : Deposit(c, amount)
    \/ \E c \in Conns, amount \in WithdrawAmounts : Withdraw(c, amount)
    \/ \E c \in Conns, quantity \in EscrowAmounts : Escrow(c, quantity)
    \/ \E c \in Conns, quantity \in ReleaseAmounts : Release(c, quantity)
    \/ \E c \in Conns, quantity \in Quantities, price \in Prices :
          PostBuy(c, quantity, price)
    \/ \E c \in Conns, quantity \in Quantities, price \in Prices :
          PostSell(c, quantity, price)
    \/ \E c \in Conns, id \in 1 .. MaxOrders : Cancel(c, id)
    \/ \E t \in Threads : BroadcastSend(t)
    \/ MatchmakerWake
    \/ MatchmakerTrade
    \/ MatchmakerFree
    \/ MatchmakerSleep

Spec == Init /\ [][ServerNext]_vars

\* ------------------------------------ account_decrease_* by several threads
\* Several threads call account_decrease_balance or account_decrease_inventory
\* on one account at the same time.  Each call is followed line by line:
\* pthread_mutex_lock, the comparison, the subtraction, pthread_mutex_unlock.
\* The history keeps what the call saw when it got the lock and what it left
\* when it released it, and the account's value as a true integer.
SharedAccount == "alice"

serverVars == << account_map, heap, trader_map, conn, fdtab, creg, empty_sem, exchangeVars,
                 bcast, crashed, ndeposit, nescrow, closes, out, bpkt >>

ServerIdle ==
    /\ account_map = << >>
    /\ heap = EmptyHeap
    /\ trader_map = << >>
    /\ conn = NoConns
    /\ fdtab = NoFds
    /\ creg = << >>
    /\ empty_sem = 0
    /\ buy_orders = << >>
    /\ sell_orders = << >>
    /\ last_trade_price = 0
    /\ next_order_id = 1
    /\ matchmaker_sem = 0
    /\ mm = MmIdle
    /\ bcast = NoBroadcast
    /\ crashed = FALSE
    /\ ndeposit = 0
    /\ nescrow = 0
    /\ closes = NoFds
    /\ out = << >>
    /\ bpkt = NoPackets

AccountInit ==
    /\ ServerIdle
    /\ balance \in {[NoFunds EXCEPT ![SharedAccount] = v] : v \in 0 .. Word - 1}
    /\ inventory \in {[NoFunds EXCEPT ![SharedAccount] = v] : v \in 0 .. Word - 1}
    /\ cash_net = balance
    /\ share_net = inventory
    /\ acct = [t \in AcctThreads |-> AcctIdle]
    /\ acct_mutex = 0
    /\ pricing = NoPricing
    /\ driver = DriverIdle
    /\ LocksIdle

acct_value(field) ==
    IF field = "balance" THEN balance[SharedAccount] ELSE inventory[SharedAccount]

\* a lock that would return whoever holds the mutex
lock_ignoring_holder(holder) == TRUE

\* pthread_mutex_lock(&account->mutex) returns: nobody holds the mutex
pthread_mutex_lock(holder) == holder = 0

AcctLock(t, field, amount) ==
    /\ acct[t].pc = "idle"
    /\ pthread_mutex_lock(acct_mutex)
    /\ acct_mutex' = t
    /\ acct' = [acct EXCEPT ![t] = [AcctIdle EXCEPT !.pc = "locked", !.field = field,
                                      !.amount = amount,
                                      !.before = acct_value(field)]]
    /\ UNCHANGED << balance, inventory, cash_net, share_net, pricing, serverVars, driver, lockVars >>

\* if (account->balance >= amount), if (account->inventory >= quantity)
AcctCheck(t) ==
    /\ acct[t].pc = "locked"
    /\ acct' = [acct EXCEPT ![t] =
                  IF account_decrease_ok(acct_value(acct[t].field), acct[t].amount)
                  THEN [@ EXCEPT !.pc = "subtract"]
                  ELSE [@ EXCEPT !.pc = "unlock", !.result = "insufficient"]]
    /\ UNCHANGED << balance, inventory, cash_net, share_net, acct_mutex, pricing,
                    serverVars, driver, lockVars >>

\* account->balance -= amount, account->inventory -= quantity
AcctSubtract(t) ==
    /\ acct[t].pc = "subtract"
    /\ IF acct[t].field = "balance"
       THEN /\ balance' = [balance EXCEPT ![SharedAccount] = USub(@, acct[t].amount)]
            /\ cash_net' = [cash_net EXCEPT ![SharedAccount] = @ - acct[t].amount]
            /\ UNCHANGED << inventory, share_net >>
       ELSE /\ inventory' = [inventory EXCEPT ![SharedAccount] = USub(@, acct[t].amount)]
            /\ share_net' = [share_net EXCEPT ![SharedAccount] = @ - acct[t].amount]
            /\ UNCHANGED << balance, cash_net >>
    /\ acct' = [acct EXCEPT ![t].pc = "unlock", ![t].result = "ok"]
    /\ UNCHANGED << acct_mutex, pricing, serverVars, driver, lockVars >>

\* pthread_mutex_unlock(&account->mutex); return
AcctUnlock(t) ==
    /\ acct[t].pc = "unlock"
    /\ acct_mutex' = 0
    /\ acct' = [acct EXCEPT ![t].pc = "done", ![t].after = acct_value(acct[t].field)]
    /\ UNCHANGED << balance, inventory, cash_net, share_net, pricing, serverVars, driver, lockVars >>

AccountNext ==
    \/ \E t \in AcctThreads, field \in {"balance", "inventory"},
          amount \in DecreaseAmounts : AcctLock(t, field, amount)
    \/ \E t \in AcctThreads : AcctCheck(t)
    \/ \E t \in AcctThreads : AcctSubtract(t)
    \/ \E t \in AcctThreads : AcctUnlock(t)

SpecAccount == AccountInit /\ [][AccountNext]_vars

\* ------------------------------------------------ the pricing of one trade
\* The matchmaker's pricing of a matching pair, for every pair of limit prices
\* an accepted SELL (low) and an accepted BUY (high) can carry and every
\* last_trade_price.
PriceInit ==
    /\ ServerIdle
    /\ balance = NoFunds
    /\ inventory = NoFunds
    /\ cash_net = NoFunds
    /\ share_net = NoFunds
    /\ acct = [t \in AcctThreads |-> AcctIdle]
    /\ acct_mutex = 0
    /\ pricing \in {[low |-> l, high |-> h, last |-> p, price |-> 0, done |-> FALSE] :
                      l \in 1 .. Word - 1, h \in 1 .. Word - 1, p \in 0 .. Word - 1}
    /\ pricing.low <= pricing.high
    /\ driver = DriverIdle
    /\ LocksIdle

PriceTrade ==
    /\ ~pricing.done
    /\ pricing' = [pricing EXCEPT
                     !.price = trade_price(pricing.low, pricing.high, pricing.last),
                     !.done = TRUE]
    /\ UNCHANGED << balance, inventory, cash_net, share_net, acct, acct_mutex,
                    serverVars, driver, lockVars >>

PriceNext == PriceTrade

SpecPrice == PriceInit /\ [][PriceNext]_vars

\* ------------------------------------------------ trading among two clients
\* The server after its first two connections have logged in under the first
\* two names and funded their accounts: the state from which the clients
\* trade.  Their BUY, SELL and CANCEL requests carry any quantity and price,
\* zero included; nobody disconnects.  ndeposit and nescrow count from here.
Trader1 == 1
Trader2 == 2
LoginName(c) == IF c = Trader1 THEN "alice" ELSE "bob"

LoggedInAt(balances, inventories, first_id) ==
    /\ balance \in [Names -> balances]
    /\ inventory \in [Names -> inventories]
    /\ cash_net = balance
    /\ share_net = inventory
    /\ account_map = << LoginName(Trader1), LoginName(Trader2) >>
    /\ heap = [s \in Slots |-> IF s \in {Trader1, Trader2}
                                THEN NewTrader(s, LoginName(s)) ELSE FreeSlot]
    /\ trader_map = << Trader1, Trader2 >>
    /\ conn = [c \in Conns |-> IF c \in {Trader1, Trader2}
                                THEN [pc |-> "recv", fd |-> c, trader |-> c,
                                      username |-> LoginName(c)]
                                ELSE IdleConn]
    /\ fdtab = [f \in Fds |-> IF f \in {Trader1, Trader2} THEN f ELSE 0]
    /\ creg = << Trader1, Trader2 >>
    /\ empty_sem = 0
    /\ buy_orders = << >>
    /\ sell_orders = << >>
    /\ last_trade_price = 0
    /\ next_order_id = first_id
    /\ matchmaker_sem = 0
    /\ mm = MmIdle
    /\ bcast = NoBroadcast
    /\ crashed = FALSE
    /\ ndeposit = 0
    /\ nescrow = 0
    /\ closes = NoFds
    /\ out = << >>
    /\ bpkt = NoPackets
    /\ HarnessIdle

LoggedInInit(balances, inventories) == LoggedInAt(balances, inventories, 1)

TradingInit == LoggedInInit(FundedBalances, FundedInventories)

TradingNext ==
    \/ \E c \in Conns : BadRequest(c)
    \/ \E c \in Conns, quantity \in AnyQuantities, price \in AnyPrices :
          PostBuy(c, quantity, price)
    \/ \E c \in Conns, quantity \in AnyQuantities, price \in AnyPrices :
          PostSell(c, quantity, price)
    \/ \E c \in Conns, id \in 1 .. MaxOrders : Cancel(c, id)
    \/ \E t \in Threads : BroadcastSend(t)
    \/ MatchmakerWake
    \/ MatchmakerTrade
    \/ MatchmakerFree
    \/ MatchmakerSleep

SpecTrading == TradingInit /\ [][TradingNext]_vars

\* a thread inside trader_broadcast_packet runs its send loop to the end
FairSpecTrading == SpecTrading /\ \A t \in Threads : WF_vars(BroadcastSend(t))

\* ------------------------------------------------ sessions and their accounts
\* The server from its start, serving connections that log in, send account
\* requests and malformed or misplaced packets, and disconnect; no client
\* sends an order.
SessionNext ==
    \/ \E c \in Conns : Accept(c)
    \/ \E c \in Conns, name \in Names : Login(c, name)
    \/ \E c \in Conns : PreLoginRefuse(c)
    \/ \E c \in Conns : BadRequest(c)
    \/ \E c \in Conns, amount \in DepositAmounts : Deposit(c, amount)
    \/ \E c \in Conns, amount \in WithdrawAmounts : Withdraw(c, amount)
    \/ \E c \in Conns, quantity \in EscrowAmounts : Escrow(c, quantity)
    \/ \E c \in Conns, quantity \in ReleaseAmounts : Release(c, quantity)
    \/ \E c \in Conns : Eof(c)
    \/ \E c \in Conns : trader_logout(c)
    \/ \E c \in Conns : DisconnectUnref(c)
    \/ \E c \in Conns : SkipLogout(c)
    \/ \E c \in Conns : CloseConn(c)

SpecSession == Init /\ [][SessionNext]_vars

\* ------------------------------------------------ funding by two clients
\* The same two logged-in clients, their accounts holding anything from
\* nothing to the largest value a field holds, send DEPOSIT, WITHDRAW, ESCROW
\* and RELEASE requests.
FundingInit == LoggedInInit(HeldAmounts, HeldAmounts)

FundingNext ==
    \/ \E c \in Conns, amount \in DepositAmounts : Deposit(c, amount)
    \/ \E c \in Conns, amount \in WithdrawAmounts : Withdraw(c, amount)
    \/ \E c \in Conns, quantity \in EscrowAmounts : Escrow(c, quantity)
    \/ \E c \in Conns, quantity \in ReleaseAmounts : Release(c, quantity)

SpecFunding == FundingInit /\ [][FundingNext]_vars

\* ================================================================ claims
\* the cash an account has encumbered in BUY orders, as a true integer
RECURSIVE encumbered_cash(_, _)
encumbered_cash(list, a) ==
    IF list = << >> THEN 0
    ELSE (IF Head(list).owner = a THEN Head(list).quantity * Head(list).price ELSE 0)
           + encumbered_cash(Tail(list), a)

\* the shares an account has in SELL orders
RECURSIVE encumbered_shares(_, _)
encumbered_shares(list, a) ==
    IF list = << >> THEN 0
    ELSE (IF Head(list).owner = a THEN Head(list).quantity ELSE 0)
           + encumbered_shares(Tail(list), a)

\* C1: conservation of cash.  For every account, the balance plus the cash
\* encumbered in its live BUY orders (remaining quantity times limit price)
\* equals what it deposited, less what it withdrew, plus its sale proceeds,
\* less what it paid for the shares it bought.
C1_CashConservation ==
    \A a \in Names :
        balance[a] + encumbered_cash(buy_orders, a) = cash_net[a]

\* C2: conservation of inventory.  For every account, the inventory plus the
\* remaining quantity of its live SELL orders equals what it escrowed, less
\* what it released, plus what it bought, less what it sold.
C2_InventoryConservation ==
    \A a \in Names :
        inventory[a] + encumbered_shares(sell_orders, a) = share_net[a]

\* C3: account_decrease_balance / account_decrease_inventory is an atomic
\* compare-and-subtract.  Under every interleaving of concurrent calls on one
\* account, a call succeeds exactly when the value it found was at least the
\* amount, a successful call leaves the value lower by exactly the amount and
\* a failed call leaves it untouched, and the stored value always equals the
\* initial value less the amounts of the successful calls: it never goes
\* below zero, so two calls never both succeed on funds enough for one.
C3_AtomicDecrease ==
    /\ balance[SharedAccount] = cash_net[SharedAccount]
    /\ inventory[SharedAccount] = share_net[SharedAccount]
    /\ cash_net[SharedAccount] >= 0
    /\ share_net[SharedAccount] >= 0
    /\ \A t \in AcctThreads :
         acct[t].pc = "done" =>
           /\ acct[t].result = "ok" <=> acct[t].before >= acct[t].amount
           /\ acct[t].after = IF acct[t].result = "ok"
                              THEN acct[t].before - acct[t].amount
                              ELSE acct[t].before

\* two calls on the same field have returned; the first found enough for
\* either of them but not for both, it succeeded and the other was refused
C3_Witness ==
    \E t, u \in AcctThreads :
        /\ t # u
        /\ acct[t].pc = "done" /\ acct[u].pc = "done"
        /\ acct[t].field = acct[u].field
        /\ acct[t].result = "ok" /\ acct[u].result = "insufficient"
        /\ acct[t].before >= acct[u].amount
        /\ acct[t].before < acct[t].amount + acct[u].amount

\* C4: at most one session per name is logged in: no two entries of the
\* name index (trader_map) carry the same name.
C4_OneSessionPerName ==
    \A i, j \in 1 .. Len(trader_map) :
        i # j => heap[trader_map[i]].name # heap[trader_map[j]].name

\* the references the program holds on the session in slot s: its servicer's
\* between login and logout, one for each order of the book (an order taken
\* out by a trade keeps its own until the matchmaker frees it), and one for
\* each recipient of a broadcast still to be sent to
RECURSIVE Count(_, _)
Count(seq, x) ==
    IF seq = << >> THEN 0
    ELSE (IF Head(seq) = x THEN 1 ELSE 0) + Count(Tail(seq), x)

RECURSIVE CountOwner(_, _)
CountOwner(list, s) ==
    IF list = << >> THEN 0
    ELSE (IF Head(list).trader = s THEN 1 ELSE 0) + CountOwner(Tail(list), s)

RECURSIVE SumOver(_, _)
SumOver(f, S) ==
    IF S = {} THEN 0
    ELSE LET x == CHOOSE y \in S : TRUE IN f[x] + SumOver(f, S \ {x})

Holders(s) ==
    Cardinality({c \in Conns : conn[c].trader = s /\ conn[c].pc \in {"recv", "cleanup"}})
      + CountOwner(buy_orders, s) + CountOwner(sell_orders, s) + Count(mm.freed, s)
      + SumOver([t \in Threads |-> Count(bcast[t], s)], Threads)

\* C5: a session's ref_count equals one for its servicer between login and
\* logout, plus one for each live order it owns, plus one for each broadcast
\* reference in flight; the session is destroyed exactly when that count
\* reaches zero, so a destroyed session has no holder left.
C5_RefCountAccounting ==
    \A s \in Slots :
        IF heap[s].live THEN heap[s].refcount = Holders(s) ELSE Holders(s) = 0

\* C6: every order in the book refers to an owner session that has not been
\* destroyed.
C6_OrderOwnersLive ==
    \A i \in 1 .. Len(buy_orders \o sell_orders) :
        heap[(buy_orders \o sell_orders)[i].trader].live

\* C7: each client socket is closed exactly once, at the destruction of its
\* session: no descriptor is closed twice after accept returned it, the
\* descriptor of a session that still has references is open, and the
\* descriptor a servicer reads from is its own connection's.
C7_SocketClosedOnce ==
    /\ \A f \in Fds : closes[f] <= 1
    /\ \A s \in Slots : heap[s].live => fdtab[heap[s].fd] # 0
    /\ \A c \in Conns : conn[c].pc = "recv" => fdtab[conn[c].fd] = c

\* no BUY order's limit price reaches a SELL order's
NoCrossingPair ==
    \A i \in 1 .. Len(buy_orders), j \in 1 .. Len(sell_orders) :
        buy_orders[i].price < sell_orders[j].price

\* C8: match feasibility.  Whenever the matchmaker finishes a pass and
\* releases the exchange mutex, a book side is empty or every BUY order's
\* limit price is strictly below every SELL order's.
C8_MatchFeasibility ==
    [][(mm.pc = "match" /\ mm'.pc = "wait" /\ ~crashed')
         => (buy_orders' = << >> \/ sell_orders' = << >> \/ NoCrossingPair')]_vars

\* the matchmaker has served every post and sleeps, and both sides of the
\* book hold an order
C8_Witness ==
    /\ mm.pc = "wait"
    /\ matchmaker_sem = 0
    /\ buy_orders # << >>
    /\ sell_orders # << >>
    /\ ~crashed

\* C9: the trade pricing rule.  The price of a trade is (low + high) / 2,
\* truncated, when there was no trade before; otherwise last if it lies in
\* [low, high], low if last is below, high if last is above.
C9_PricingRule ==
    pricing.done =>
        pricing.price =
            IF pricing.last = 0 THEN (pricing.low + pricing.high) \div 2
            ELSE IF pricing.low <= pricing.last /\ pricing.last <= pricing.high
                 THEN pricing.last
            ELSE IF pricing.last < pricing.low THEN pricing.low
            ELSE pricing.high

\* C10: trade price bounds.  For all limit prices of the machine word, the
\* first trade included, low <= trade price <= high.
C10_PriceBounds ==
    pricing.done =>
        pricing.low <= pricing.price /\ pricing.price <= pricing.high

\* the order of a side that arrived first among those at the price: ids are
\* handed out in arrival order
EarliestAt(list, price) ==
    CHOOSE i \in 1 .. Len(list) :
        /\ list[i].price = price
        /\ \A j \in 1 .. Len(list) : list[j].price = price => list[i].id <= list[j].id

\* C11: tie-break.  On each side of the book the order the matchmaker selects
\* carries the best price of the side (highest limit for BUY, lowest for SELL)
\* and, among the orders at that price, is the one that arrived earliest.
C11_TieBreak ==
    /\ buy_orders # << >> =>
         LET best == buy_orders[find_best_buy(buy_orders)]
         IN  /\ \A j \in 1 .. Len(buy_orders) : buy_orders[j].price <= best.price
             /\ find_best_buy(buy_orders) = EarliestAt(buy_orders, best.price)
    /\ sell_orders # << >> =>
         LET best == sell_orders[find_best_sell(sell_orders)]
         IN  /\ \A j \in 1 .. Len(sell_orders) : sell_orders[j].price >= best.price
             /\ find_best_sell(sell_orders) = EarliestAt(sell_orders, best.price)

\* the matchmaker applies a trade / ends the turn of a trade
TradeStep == mm.pc = "match" /\ mm'.pc = "bcast"
TradeEndStep == mm.pc = "bcast" /\ mm'.pc = "match"

\* C12: applying a trade.  With trade_qty the smaller remaining quantity of
\* the selected pair and trade_price the price of the trade, in true integers:
\* the seller's balance grows by trade_qty * trade_price, the buyer's balance
\* by trade_qty * (buyer limit - trade_price) and the buyer's inventory by
\* trade_qty; both orders' remaining quantities drop by trade_qty; an order
\* that reaches 0 leaves the book and its owner reference is released at the
\* end of the turn, an order partially filled stays with the reduced quantity;
\* last_trade_price becomes trade_price.
C12_ApplyTrade ==
    [][/\ TradeStep =>
            LET bi == find_best_buy(buy_orders)
                si == find_best_sell(sell_orders)
                best_buy == buy_orders[bi]
                best_sell == sell_orders[si]
                qty == IF best_buy.quantity < best_sell.quantity
                       THEN best_buy.quantity ELSE best_sell.quantity
                tp == trade_price(best_sell.price, best_buy.price, last_trade_price)
            IN  /\ last_trade_price' = tp
                /\ balance' = [n \in Names |->
                     balance[n]
                       + (IF n = best_sell.owner THEN qty * tp ELSE 0)
                       + (IF n = best_buy.owner THEN qty * (best_buy.price - tp) ELSE 0)]
                /\ inventory' = [n \in Names |->
                     inventory[n] + (IF n = best_buy.owner THEN qty ELSE 0)]
                /\ buy_orders' = IF best_buy.quantity = qty THEN RemoveAt(buy_orders, bi)
                                 ELSE [buy_orders EXCEPT ![bi].quantity = @ - qty]
                /\ sell_orders' = IF best_sell.quantity = qty THEN RemoveAt(sell_orders, si)
                                  ELSE [sell_orders EXCEPT ![si].quantity = @ - qty]
                /\ mm'.freed = (IF best_buy.quantity = qty THEN << best_buy.trader >>
                                ELSE << >>)
                               \o (IF best_sell.quantity = qty THEN << best_sell.trader >>
                                   ELSE << >>)
       /\ TradeEndStep =>
            \A s \in Slots : heap'[s].refcount = heap[s].refcount - Count(mm.freed, s)
      ]_vars

\* the account of the session a connection serves
AccountOf(c) == conn[c].username

\* the request of connection c was refused: a NACK to the client and nothing
\* of the accounts, the book, the order-id counter, the sessions' reference
\* counts, the matchmaker's semaphore or the broadcasts has changed
Refused(c) ==
    /\ out' = << Packet("NACK", conn[c].fd, 0, 0, 0, 0, 0) >>
    /\ UNCHANGED << balance, inventory, buy_orders, sell_orders, next_order_id,
                    heap, matchmaker_sem, bcast, bpkt >>

\* C13: a rejected post changes nothing.  A BUY or SELL with quantity 0 or
\* limit price 0, a BUY whose quantity * limit price (a true integer) exceeds
\* the balance, and a SELL whose quantity exceeds the inventory are refused;
\* balance, inventory, both book sides, the order-id counter and the reference
\* counts stay as they were and the matchmaker is not woken.
C13_RejectedPost ==
    [][\A c \in Conns, quantity \in AnyQuantities, price \in AnyPrices :
         /\ ( /\ PostBuy(c, quantity, price)
              /\ \/ quantity = 0
                 \/ price = 0
                 \/ quantity * price > balance[AccountOf(c)] )
            => Refused(c)
         /\ ( /\ PostSell(c, quantity, price)
              /\ \/ quantity = 0
                 \/ price = 0
                 \/ quantity > inventory[AccountOf(c)] )
            => Refused(c)
      ]_vars

\* C14: BUY overflow.  A BUY whose quantity * limit price does not fit in the
\* machine word is answered with NACK; no order is created and no funds are
\* encumbered.
C14_BuyOverflowRefused ==
    [][\A c \in Conns, quantity \in AnyQuantities, price \in AnyPrices :
         (PostBuy(c, quantity, price) /\ quantity * price >= Word)
            => /\ out' = << Packet("NACK", conn[c].fd, 0, 0, 0, 0, 0) >>
               /\ buy_orders' = buy_orders
               /\ balance' = balance
      ]_vars

\* C15: DEPOSIT and ESCROW overflow.  A DEPOSIT whose amount would take the
\* balance, or an ESCROW whose quantity would take the inventory, above the
\* largest value of the machine word is answered with NACK and leaves the
\* stored value as it was; the stored value never becomes smaller.
C15_IncreaseOverflowRefused ==
    [][/\ \A c \in Conns, amount \in DepositAmounts :
            (Deposit(c, amount) /\ balance[AccountOf(c)] + amount >= Word)
               => /\ out' = << Packet("NACK", conn[c].fd, 0, 0, 0, 0, 0) >>
                  /\ balance' = balance
       /\ \A c \in Conns, quantity \in EscrowAmounts :
            (Escrow(c, quantity) /\ inventory[AccountOf(c)] + quantity >= Word)
               => /\ out' = << Packet("NACK", conn[c].fd, 0, 0, 0, 0, 0) >>
                  /\ inventory' = inventory
      ]_vars

\* the order with this id in the book, and whether it is on the BUY side
InBook(id) == find_order(buy_orders, id, 1) # 0 \/ find_order(sell_orders, id, 1) # 0
IsBuy(id) == find_order(buy_orders, id, 1) # 0
BookOrder(id) ==
    IF IsBuy(id) THEN buy_orders[find_order(buy_orders, id, 1)]
    ELSE sell_orders[find_order(sell_orders, id, 1)]

\* C16: successful cancel.  When a session cancels an order it owns, the order
\* leaves its book side; the owner's balance grows by remaining * limit price
\* (BUY) or the inventory by remaining (SELL), in true integers; the order's
\* reference to its owner is released; a CANCELED broadcast to every logged-in
\* session carries the order id in the buyer (BUY) or seller (SELL) field and
\* the remaining quantity; and the ACK that follows the broadcast carries the
\* order id and that quantity.
C16_SuccessfulCancel ==
    [][/\ \A c \in Conns, id \in 1 .. MaxOrders :
            ( /\ Cancel(c, id)
              /\ ~crashed'
              /\ InBook(id)
              /\ BookOrder(id).owner = AccountOf(c)
              /\ BookOrder(id).trader = conn[c].trader )
            => LET o == BookOrder(id)
               IN  /\ buy_orders' = IF IsBuy(id)
                                    THEN RemoveAt(buy_orders, find_order(buy_orders, id, 1))
                                    ELSE buy_orders
                   /\ sell_orders' = IF IsBuy(id) THEN sell_orders
                                     ELSE RemoveAt(sell_orders, find_order(sell_orders, id, 1))
                   /\ balance' = [n \in Names |->
                        balance[n] + (IF IsBuy(id) /\ n = o.owner
                                      THEN o.quantity * o.price ELSE 0)]
                   /\ inventory' = [n \in Names |->
                        inventory[n] + (IF ~IsBuy(id) /\ n = o.owner
                                        THEN o.quantity ELSE 0)]
                   /\ bcast'[c] = trader_map
                   /\ heap'[o.trader].refcount =
                        heap[o.trader].refcount - 1 + Count(trader_map, o.trader)
                   /\ bpkt'[c].type = "CANCELED"
                   /\ bpkt'[c].buyer = (IF IsBuy(id) THEN id ELSE 0)
                   /\ bpkt'[c].seller = (IF IsBuy(id) THEN 0 ELSE id)
                   /\ bpkt'[c].quantity = o.quantity
       /\ \A c \in Conns :
            (bpkt[c].type = "CANCELED" /\ bpkt'[c].type = "none" /\ ~crashed')
            => out'[Len(out')] = Packet("ACK", conn[c].fd, 0, 0,
                                        bpkt[c].buyer + bpkt[c].seller,
                                        bpkt[c].quantity, 0)
      ]_vars

\* C17: failed cancel.  A CANCEL of an id that is not in the book, or of an
\* order another session's account owns, is answered with NACK; both book
\* sides, every account and every reference count stay as they were and no
\* CANCELED broadcast is started.
C17_FailedCancel ==
    [][\A c \in Conns, id \in 1 .. MaxOrders :
         ( /\ Cancel(c, id)
           /\ ~crashed'
           /\ (~InBook(id) \/ BookOrder(id).owner # AccountOf(c)) )
         => Refused(c)
      ]_vars

\* connection c's request created order id and started its POSTED broadcast
\* to every logged-in session
Posted(c, id, buyer, seller, quantity, price) ==
    /\ next_order_id' = id + 1
    /\ bcast'[c] = trader_map
    /\ bpkt'[c] = Packet("POSTED", 0, buyer, seller, 0, quantity, price)

SessionFd(name) == conn[CHOOSE c \in Conns : conn[c].username = name].fd

PostedPending(fd, id) ==
    \E c \in Conns :
        /\ bpkt[c].type = "POSTED"
        /\ id \in {bpkt[c].buyer, bpkt[c].seller}
        /\ \E j \in 1 .. Len(bcast[c]) : heap[bcast[c][j]].fd = fd

\* C20: POSTED first.  No BOUGHT, SOLD or TRADED naming an order is written
\* to a client while the POSTED announcing that order is still to be written
\* to that client.
C20_PostedBeforeTrade ==
    [][\A i \in 1 .. Len(out') :
         out'[i].type \in {"BOUGHT", "SOLD", "TRADED"}
            => /\ ~PostedPending(out'[i].fd, out'[i].buyer)
               /\ ~PostedPending(out'[i].fd, out'[i].seller)
      ]_vars

\* the servicer of connection c handles a BUY, SELL or CANCEL request
HandlesRequest(c) ==
    \/ \E quantity \in AnyQuantities, price \in AnyPrices :
          PostBuy(c, quantity, price) \/ PostSell(c, quantity, price)
    \/ \E id \in 1 .. MaxOrders : Cancel(c, id)

\* the book holds a match the matchmaker has not executed yet, and the
\* session of connection c is a party to it: its BOUGHT or SOLD is still to
\* be written
AwaitsTradeNotice(c) ==
    /\ Matching
    /\ conn[c].trader \in {buy_orders[find_best_buy(buy_orders)].trader,
                           sell_orders[find_best_sell(sell_orders)].trader}

Dispatches(c) ==
    \/ \E amount \in DepositAmounts : Deposit(c, amount)
    \/ \E amount \in WithdrawAmounts : Withdraw(c, amount)
    \/ \E quantity \in EscrowAmounts : Escrow(c, quantity)
    \/ \E quantity \in ReleaseAmounts : Release(c, quantity)
    \/ HandlesRequest(c)

\* a NACK to connection c, and accounts, book and sessions as they were
NackOnly(c) ==
    /\ out' = << Packet("NACK", conn[c].fd, 0, 0, 0, 0, 0) >>
    /\ UNCHANGED << balance, inventory, account_map, buy_orders, sell_orders,
                    next_order_id, heap, trader_map, conn, bcast, bpkt >>

\* C22: login state machine.  While a connection is not logged in, a packet
\* that is not a LOGIN and a LOGIN that fails are answered with NACK, change
\* nothing of accounts, book or sessions and leave the connection not logged
\* in.  A LOGIN that succeeds is answered with an ACK without payload and
\* makes the connection logged in, with a session for its descriptor and name
\* in the session map; nothing else makes a connection logged in, and account
\* and exchange requests are handled for logged-in connections only.
C22_LoginStateMachine ==
    [][\A c \in Conns :
         /\ PreLoginRefuse(c) => NackOnly(c)
         /\ \A name \in Names :
              (Login(c, name) /\ ~crashed') =>
                 IF trader_login_ok(name)
                 THEN /\ out' = << Packet("ACK", conn[c].fd, 0, 0, 0, 0, 0) >>
                      /\ conn'[c].trader # 0
                      /\ conn'[c].trader \in Range(trader_map')
                      /\ heap'[conn'[c].trader] = NewTrader(conn[c].fd, name)
                      /\ name \in Range(account_map')
                 ELSE NackOnly(c)
         /\ (conn[c].trader = 0 /\ conn'[c].trader # 0) =>
              \E name \in Names : Login(c, name) /\ trader_login_ok(name)
         /\ Dispatches(c) => conn[c].trader # 0
      ]_vars

\* a connection that is not logged in has just been answered with NACK while
\* another connection is logged in
C22_Witness ==
    \E c, d \in Conns :
        /\ conn[c].pc = "recv" /\ conn[c].trader = 0
        /\ out = << Packet("NACK", conn[c].fd, 0, 0, 0, 0, 0) >>
        /\ conn[d].pc = "recv" /\ conn[d].trader # 0

\* connection c's request is one the server must refuse
ErroneousRequest(c) ==
    \/ BadRequest(c)
    \/ \E quantity \in AnyQuantities, price \in AnyPrices :
         \/ /\ PostBuy(c, quantity, price)
            /\ (quantity = 0 \/ price = 0 \/ quantity * price > balance[AccountOf(c)])
         \/ /\ PostSell(c, quantity, price)
            /\ (quantity = 0 \/ price = 0 \/ quantity > inventory[AccountOf(c)])
    \/ \E id \in 1 .. MaxOrders :
         /\ Cancel(c, id)
         /\ (~InBook(id) \/ BookOrder(id).owner # AccountOf(c))

\* C23: per-request errors never terminate the connection.  For a logged-in
\* client a request with a wrong payload size or an unknown type, a second
\* LOGIN, a BUY the balance does not cover, a SELL the inventory does not
\* cover, a post with quantity 0 or price 0 and a CANCEL of an id that is not
\* in the book or is owned by another account are answered with NACK, leave
\* accounts, book and sessions as they were, and leave the servicer receiving
\* the client's next request on the same session.
C23_ErrorsKeepConnection ==
    [][\A c \in Conns :
         ErroneousRequest(c) =>
            /\ Refused(c)
            /\ UNCHANGED << account_map, trader_map, conn, fdtab, creg >>
            /\ LoggedIn(c)'
      ]_vars

\* ------------------------------------------------------------ shutdown
\* The main thread's accept loop, SIGHUP and terminate, with the servicer
\* threads of the connections it accepted.  A servicer registers its
\* descriptor when it starts to run, after pthread_create has returned in the
\* main thread.  Clients log in and disconnect; they post no requests.

\* a connection's descriptor is in the client registry
Registered(c) == conn[c].pc \in {"recv", "cleanup", "unref", "close"}

\* main's loop: accept() returns a descriptor, pthread_create starts its servicer
ServicerCreate(c) ==
    /\ ~crashed
    /\ driver.pc = "accept"
    /\ conn[c].pc = "idle"
    /\ \A d \in Conns : d < c => conn[d].pc # "idle"
    /\ \E f \in Fds : fdtab[f] = 0
    /\ LET fd == LowestFreeFd IN
         /\ fdtab' = [fdtab EXCEPT ![fd] = c]
         /\ closes' = [closes EXCEPT ![fd] = 0]
         /\ conn' = [conn EXCEPT ![c] = [IdleConn EXCEPT !.pc = "created", !.fd = fd]]
    /\ out' = << >>
    /\ UNCHANGED << accountVars, heap, trader_map, creg, empty_sem, exchangeVars,
                    bcast, crashed, historyVars, harnessVars, bpkt >>

\* the servicer's first call: creg_register(client_registry, fd)
creg_register(c) ==
    /\ ~crashed
    /\ conn[c].pc = "created"
    /\ creg' = Append(creg, conn[c].fd)
    /\ conn' = [conn EXCEPT ![c].pc = "recv"]
    /\ out' = << >>
    /\ UNCHANGED << accountVars, heap, trader_map, fdtab, closes, empty_sem,
                    exchangeVars, bcast, crashed, historyVars, harnessVars, bpkt >>

\* what the main thread's steps leave alone
driverFrame == << accountVars, sessionVars, exchangeVars, bcast, crashed, historyVars,
                 acct, acct_mutex, pricing, lockVars, out, bpkt >>

\* SIGHUP: the handler sets shutdown_flag and closes the listening socket, the
\* accept loop ends and main calls terminate
sighup_handler ==
    /\ ~crashed
    /\ driver.pc = "accept"
    /\ driver' = [driver EXCEPT !.pc = "shutdown_all"]
    /\ UNCHANGED driverFrame

\* shutdown(fd, SHUT_RD) for every descriptor in the registry
creg_shutdown_all ==
    /\ driver.pc = "shutdown_all"
    /\ driver' = [driver EXCEPT !.pc = "wait_for_empty", !.shut = Range(creg)]
    /\ UNCHANGED driverFrame

\* creg_wait_for_empty reads the count under the mutex and returns if it is 0
creg_wait_for_empty ==
    /\ driver.pc = "wait_for_empty"
    /\ driver' = [driver EXCEPT !.pc = IF Len(creg) = 0 THEN "fini" ELSE "sem_wait",
                                !.since = {c \in Conns : Registered(c)}]
    /\ UNCHANGED driverFrame

\* sem_wait(&cr->empty_sem) returns
creg_sem_wait ==
    /\ driver.pc = "sem_wait"
    /\ empty_sem > 0
    /\ empty_sem' = empty_sem - 1
    /\ driver' = [driver EXCEPT !.pc = "fini"]
    /\ UNCHANGED << accountVars, heap, trader_map, conn, fdtab, creg, closes,
                    exchangeVars, bcast, crashed, historyVars, acct, acct_mutex,
                    pricing, lockVars, out, bpkt >>

\* creg_fini, exchange_fini, traders_fini, accounts_fini: no orders stand in
\* this harness, so the book and the accounts are as they were
terminate_fini ==
    /\ driver.pc = "fini"
    /\ driver' = [driver EXCEPT !.pc = "finalized"]
    /\ UNCHANGED driverFrame

ShutdownNext ==
    \/ \E c \in Conns : ServicerCreate(c)
    \/ \E c \in Conns : creg_register(c)
    \/ \E c \in Conns, name \in Names : Login(c, name)
    \/ \E c \in Conns : Eof(c)
    \/ \E c \in Conns : trader_logout(c)
    \/ \E c \in Conns : DisconnectUnref(c)
    \/ \E c \in Conns : SkipLogout(c)
    \/ \E c \in Conns : CloseConn(c)
    \/ sighup_handler
    \/ creg_shutdown_all
    \/ creg_wait_for_empty
    \/ creg_sem_wait
    \/ terminate_fini

SpecShutdown == Init /\ [][ShutdownNext]_vars

\* C24: wait_until_empty.  creg_wait_for_empty does not return while a client
\* that was registered when it was called is still registered, whatever
\* registrations and unregistrations came before the call.
C24_WaitUntilEmpty ==
    driver.pc \in {"fini", "finalized"} => \A c \in driver.since : ~Registered(c)

\* C25: graceful shutdown drains sessions.  When the driver finalizes the
\* modules, every connection that was accepted has left its loop, logged out
\* and unregistered: no servicer thread is still on its way.
C25_ShutdownDrains ==
    driver.pc = "finalized" => \A c \in Conns : conn[c].pc \in {"idle", "gone"}

\* ------------------------------------------------------------- locking
\* Every call the threads make, reduced to its mutex operations and its writes
\* to a socket, in program order.  A call with a conditional part is taken
\* with the part, which adds acquisitions and removes none.  Sessions are
\* named by their slot and accounts by their place in account_map; a session
\* writes to heap[s].fd, the descriptor it was created with.
Lock(m) == << << "lock", m >> >>
Unlock(m) == << << "unlock", m >> >>
Hold(m) == Lock(m) \o Unlock(m)
Write(part, fd) == << << "write", << part, fd >> >> >>

\* exit(status): the main thread does not return
Exit == << << "exit", << "exit", 0 >> >> >>

account_map_mutex == << "account_map", 0 >>
trader_map_mutex == << "trader_map", 0 >>
xchg_mutex == << "exchange", 0 >>
session_mutex(s) == << "session", s >>
account_mutex(a) == << "account", a >>

\* account_lookup
locks_account_lookup == Hold(account_map_mutex)

\* account_increase_balance, account_increase_inventory: the account, then the
\* lookup of the account's name for the debug line
locks_account_increase(a) == Hold(account_mutex(a)) \o Hold(account_map_mutex)

\* account_decrease_balance, account_decrease_inventory, account_get_status
locks_account_decrease(a) == Hold(account_mutex(a))
locks_account_get_status(a) == Hold(account_mutex(a))

\* an exchange_get_status that takes the account before the exchange
locks_status_account_first(a) ==
    Lock(account_mutex(a)) \o Hold(xchg_mutex) \o Unlock(account_mutex(a))

\* exchange_get_status
locks_exchange_get_status(a) ==
    Lock(xchg_mutex) \o locks_account_get_status(a) \o Unlock(xchg_mutex)

\* trader_get_account(trader)
AcctOf(s) == CHOOSE a \in 1 .. Len(account_map) : account_map[a] = heap[s].name

\* a send that writes without the session mutex
locks_send_unlocked(s) == Write("header", heap[s].fd) \o Write("payload", heap[s].fd)

\* trader_send_packet: proto_send_packet(trader->fd, ...) under the session mutex
locks_trader_send_packet(s) ==
    Lock(session_mutex(s)) \o Write("header", heap[s].fd)
        \o Write("payload", heap[s].fd) \o Unlock(session_mutex(s))

\* trader_ref, trader_unref
locks_trader_ref(s) == Hold(session_mutex(s))
locks_trader_unref(s) == Hold(session_mutex(s))

\* trader_broadcast_packet over the sessions of the map
RECURSIVE locks_refs(_)
locks_refs(ss) ==
    IF ss = << >> THEN << >>
    ELSE locks_trader_ref(Head(ss)) \o locks_refs(Tail(ss))

RECURSIVE locks_sends(_)
locks_sends(ss) ==
    IF ss = << >> THEN << >>
    ELSE locks_trader_send_packet(Head(ss))
             \o locks_trader_unref(Head(ss)) \o locks_sends(Tail(ss))
locks_trader_broadcast_packet ==
    Lock(trader_map_mutex) \o locks_refs(trader_map) \o Unlock(trader_map_mutex)
        \o locks_sends(trader_map)

\* trader_login, trader_logout
locks_trader_login == Lock(trader_map_mutex) \o locks_account_lookup \o Unlock(trader_map_mutex)
locks_trader_logout(s) == Hold(trader_map_mutex) \o locks_trader_unref(s)

\* exchange_post_buy, exchange_post_sell
locks_exchange_post(s) ==
    locks_account_decrease(AcctOf(s)) \o Lock(xchg_mutex) \o locks_trader_ref(s)
        \o Unlock(xchg_mutex)

\* exchange_cancel
locks_exchange_cancel(s) ==
    Lock(xchg_mutex) \o locks_account_increase(AcctOf(s)) \o locks_trader_unref(s)
        \o Unlock(xchg_mutex) \o locks_trader_broadcast_packet

\* one trade of the matchmaker between the orders of sessions b and s
locks_matchmaker(b, s) ==
    Lock(xchg_mutex) \o locks_account_increase(AcctOf(s))
        \o locks_account_increase(AcctOf(b)) \o locks_account_increase(AcctOf(b))
        \o locks_trader_send_packet(b) \o locks_trader_send_packet(s)
        \o locks_trader_broadcast_packet
        \o locks_trader_unref(b) \o locks_trader_unref(s) \o Unlock(xchg_mutex)

\* exchange_fini with a BUY order of session b and a SELL order of session s
locks_exchange_fini(b, s) ==
    Lock(xchg_mutex) \o locks_account_increase(AcctOf(b)) \o locks_trader_unref(b)
        \o locks_account_increase(AcctOf(s)) \o locks_trader_unref(s)
        \o Unlock(xchg_mutex)

\* traders_fini over the sessions of the map
RECURSIVE locks_fini_sessions(_)
locks_fini_sessions(ss) ==
    IF ss = << >> THEN << >>
    ELSE Hold(session_mutex(Head(ss))) \o locks_trader_unref(Head(ss))
             \o locks_fini_sessions(Tail(ss))
locks_traders_fini ==
    Lock(trader_map_mutex) \o locks_fini_sessions(trader_map) \o Unlock(trader_map_mutex)

\* accounts_fini
locks_accounts_fini == Hold(account_map_mutex)

\* the calls of the servicer of session s for one packet of its client, or
\* for its cleanup
ServicerCalls(s) ==
    { locks_trader_login \o locks_trader_send_packet(s),
      locks_trader_send_packet(s),
      locks_exchange_get_status(AcctOf(s)) \o locks_trader_send_packet(s),
      locks_account_increase(AcctOf(s)) \o locks_exchange_get_status(AcctOf(s))
          \o locks_trader_send_packet(s),
      locks_account_get_status(AcctOf(s)) \o locks_account_decrease(AcctOf(s))
          \o locks_exchange_get_status(AcctOf(s)) \o locks_trader_send_packet(s),
      locks_exchange_post(s) \o locks_trader_broadcast_packet
          \o locks_exchange_get_status(AcctOf(s)) \o locks_trader_send_packet(s),
      locks_account_get_status(AcctOf(s)) \o locks_exchange_post(s)
          \o locks_exchange_get_status(AcctOf(s)) \o locks_trader_send_packet(s)
          \o locks_trader_broadcast_packet,
      locks_exchange_cancel(s) \o locks_exchange_get_status(AcctOf(s))
          \o locks_trader_send_packet(s),
      locks_trader_logout(s) \o locks_trader_unref(s) }

\* the sessions that exist: those of the map and those orders keep alive
LiveSessions == {s \in Slots : heap[s].live}

\* the calls thread t may start: a trade of the matchmaker between the orders
\* of any two sessions, terminate's finalizations with an order of each of
\* the first two sessions in the book, a request of a logged-in client
LockCalls(t) ==
    IF t = Matchmaker
    THEN {locks_matchmaker(b, s) : b \in LiveSessions, s \in LiveSessions}
    ELSE IF t = Driver
    THEN {locks_exchange_fini(Trader1, Trader2) \o locks_traders_fini
              \o locks_accounts_fini \o Exit}
    ELSE IF conn[t].pc = "recv" /\ conn[t].trader # 0
    THEN ServicerCalls(conn[t].trader)
    ELSE {}

lockFrame == << balance, inventory, cash_net, share_net, acct, acct_mutex, pricing,
               driver, serverVars >>

\* a thread starts a call.  exchange_fini clears the running flag and joins
\* the matchmaker before it takes the exchange mutex: the driver starts once
\* the matchmaker is out of its pass, and no pass starts after that.
LkBegin(t) ==
    /\ prog[t] = << >>
    /\ t = Driver => prog[Matchmaker] = << >>
    /\ t = Matchmaker => prog[Driver] = << >>
    /\ \E call \in LockCalls(t) : prog' = [prog EXCEPT ![t] = call]
    /\ UNCHANGED << held_by, lockFrame >>

\* pthread_mutex_lock returns: the mutex was free
LkLock(t) ==
    /\ prog[t] # << >>
    /\ Head(prog[t])[1] = "lock"
    /\ held_by[Head(prog[t])[2]] = Nobody
    /\ held_by' = [held_by EXCEPT ![Head(prog[t])[2]] = t]
    /\ prog' = [prog EXCEPT ![t] = Tail(@)]
    /\ UNCHANGED lockFrame

\* pthread_mutex_unlock
LkUnlock(t) ==
    /\ prog[t] # << >>
    /\ Head(prog[t])[1] = "unlock"
    /\ held_by' = [held_by EXCEPT ![Head(prog[t])[2]] = Nobody]
    /\ prog' = [prog EXCEPT ![t] = Tail(@)]
    /\ UNCHANGED lockFrame

\* full_write of a packet's header or of its payload
LkWrite(t) ==
    /\ prog[t] # << >>
    /\ Head(prog[t])[1] = "write"
    /\ prog' = [prog EXCEPT ![t] = Tail(@)]
    /\ UNCHANGED << held_by, lockFrame >>

\* two clients are logged in, each on its own socket
LocksInit == LoggedInInit({Word \div 2}, {2})

LocksNext ==
    \/ \E t \in LkThreads : LkBegin(t)
    \/ \E t \in LkThreads : LkLock(t)
    \/ \E t \in LkThreads : LkUnlock(t)
    \/ \E t \in LkThreads : LkWrite(t)

SpecLocks == LocksInit /\ [][LocksNext]_vars

\* thread t is blocked in pthread_mutex_lock on a mutex that thread u holds
WaitsFor(t, u) ==
    /\ prog[t] # << >>
    /\ Head(prog[t])[1] = "lock"
    /\ held_by[Head(prog[t])[2]] = u

\* C26: no deadlock.  In no reachable state is there a set of threads
\* (servicers, matchmaker, shutdown driver) each of which waits for a mutex
\* (account map, session map, exchange, a session's, an account's) that
\* another thread of the set, or the thread itself, holds.
C26_NoDeadlock ==
    \A S \in SUBSET LkThreads :
        S # {} => \E t \in S : \A u \in S : ~WaitsFor(t, u)

\* the matchmaker, inside a pass with the exchange mutex, waits for a session
\* mutex that a servicer holds while it writes, and the other servicer waits
\* for the exchange mutex
C26_Witness ==
    \E c, d \in Conns :
        /\ c # d
        /\ held_by[xchg_mutex] = Matchmaker
        /\ WaitsFor(Matchmaker, c)
        /\ Head(prog[Matchmaker])[2][1] = "session"
        /\ WaitsFor(d, Matchmaker)

\* ---------------------------------------------- writes to a reused descriptor
\* alice logged in on descriptor 1, posted two BUY orders and disconnected:
\* her session, out of the map, is kept alive by an order's reference and
\* still carries descriptor 1.  bob then connected, accept() returned
\* descriptor 1 again, and he logged in: two sessions write to one socket.
StaleInit ==
    /\ balance = NoFunds
    /\ inventory = NoFunds
    /\ cash_net = NoFunds
    /\ share_net = NoFunds
    /\ account_map = << "alice", "bob" >>
    /\ heap = [s \in Slots |-> IF s = Trader1
                                THEN [NewTrader(1, "alice") EXCEPT !.refcount = 1]
                                ELSE NewTrader(1, "bob")]
    /\ trader_map = << Trader2 >>
    /\ conn = [c \in Conns |->
                 IF c = Trader1
                 THEN [pc |-> "gone", fd |-> 1, trader |-> Trader1, username |-> "alice"]
                 ELSE [pc |-> "recv", fd |-> 1, trader |-> Trader2, username |-> "bob"]]
    /\ fdtab = [f \in Fds |-> IF f = 1 THEN Trader2 ELSE 0]
    /\ creg = << 1 >>
    /\ empty_sem = 1
    /\ buy_orders = << [id |-> 2, trader |-> Trader1, owner |-> "alice",
                        type |-> "BUY", quantity |-> 2, price |-> Word \div 2],
                       [id |-> 1, trader |-> Trader1, owner |-> "alice",
                        type |-> "BUY", quantity |-> 2, price |-> Word \div 2] >>
    /\ sell_orders = << >>
    /\ last_trade_price = 0
    /\ next_order_id = 3
    /\ matchmaker_sem = 0
    /\ mm = MmIdle
    /\ bcast = NoBroadcast
    /\ crashed = FALSE
    /\ ndeposit = 0
    /\ nescrow = 0
    /\ closes = NoFds
    /\ out = << >>
    /\ bpkt = NoPackets
    /\ HarnessIdle

SpecWrite == StaleInit /\ [][LocksNext]_vars

\* thread t is inside proto_send_packet on descriptor fd: about to write the
\* header, or between the header and the payload
Writing(t, fd) ==
    /\ prog[t] # << >>
    /\ Head(prog[t])[1] = "write"
    /\ Head(prog[t])[2][2] = fd

\* C27: per-socket write serialization.  At most one thread at a time is
\* writing a packet to the socket of a logged-in session, and a thread that
\* writes a packet's header and payload holds a session mutex throughout.
C27_WritesSerialized ==
    \A c \in Conns :
        (conn[c].pc = "recv" /\ conn[c].trader # 0) =>
            /\ \A t, u \in LkThreads :
                 (Writing(t, conn[c].fd) /\ Writing(u, conn[c].fd)) => t = u
            /\ \A t \in LkThreads :
                 Writing(t, conn[c].fd) =>
                    \E s \in Slots : held_by[session_mutex(s)] = t

\* a connection is logged in under this name
InSession(name) ==
    \E c \in Conns : conn[c].trader # 0 /\ conn[c].username = name
                        /\ conn[c].pc \in {"recv", "cleanup"}

\* C28: accounts persist across sessions.  The first lookup of a name creates
\* its account with balance 0 and inventory 0; the account is never destroyed
\* while the process runs and no second account is made for the name; the
\* session a LOGIN creates points to the account of its name and the LOGIN
\* leaves balance and inventory as the earlier session left them; and while
\* nobody is logged in under the name they change by the matchmaker's trades
\* only.
C28_AccountsPersist ==
    [][~crashed' =>
         \A name \in Names :
            /\ name \in Range(account_map) => name \in Range(account_map')
            /\ (name \notin Range(account_map) /\ name \in Range(account_map'))
                  => balance'[name] = 0 /\ inventory'[name] = 0
            /\ Cardinality(Range(account_map')) = Len(account_map')
            /\ \A c \in Conns :
                  (conn[c].trader = 0 /\ conn'[c].trader # 0 /\ conn'[c].username = name)
                     => /\ heap'[conn'[c].trader].name = name
                        /\ name \in Range(account_map')
                        /\ balance'[name] = balance[name]
                        /\ inventory'[name] = inventory[name]
            /\ (~InSession(name) /\ ~TradeStep)
                  => balance'[name] = balance[name] /\ inventory'[name] = inventory[name]
      ]_vars

\* a client is logged in under a name whose earlier session is gone, and
\* finds the funds that session left
C28_Witness ==
    \E c, d \in Conns :
        /\ conn[c].pc = "gone" /\ conn[c].trader # 0
        /\ conn[d].pc = "recv" /\ conn[d].trader # 0
        /\ conn[d].username = conn[c].username
        /\ balance[conn[d].username] > 0

\* ------------------------------------------------- the end of the id range
\* An exchange that has handed out all ids but the last: Word - 2 orders were
\* posted and have been cancelled or filled, the book is empty, and the two
\* clients go on posting.  The next two posts are followed.
WrapInit == LoggedInAt({Word - 1}, {Word - 1}, Word - 1)

WrapBuy(c, quantity, price) ==
    next_order_id \notin 1 .. MaxOrders /\ PostBuy(c, quantity, price)

WrapSell(c, quantity, price) ==
    next_order_id \notin 1 .. MaxOrders /\ PostSell(c, quantity, price)

WrapNext ==
    \/ \E c \in Conns, quantity \in Quantities, price \in Prices :
          WrapBuy(c, quantity, price)
    \/ \E c \in Conns, quantity \in Quantities, price \in Prices :
          WrapSell(c, quantity, price)
    \/ \E t \in Threads : BroadcastSend(t)
    \/ MatchmakerWake
    \/ MatchmakerTrade
    \/ MatchmakerFree
    \/ MatchmakerSleep

SpecWrap == WrapInit /\ [][WrapNext]_vars

\* the orders of the book, both sides
Book == buy_orders \o sell_orders

\* C29: order ids.  The order a successful post adds to the book carries an
\* id that is not 0 and is greater than the id of every order posted before
\* it that still stands, so the ids of the book are distinct.
C29_OrderIds ==
    [][(Len(Book') = Len(Book) + 1) =>
          LET new == IF Len(buy_orders') > Len(buy_orders)
                     THEN Head(buy_orders') ELSE Head(sell_orders')
          IN  /\ new.id # 0
              /\ new.id = next_order_id
              /\ \A i \in 1 .. Len(Book) : Book[i].id < new.id
      ]_vars

\* ------------------------------------------------- exchange finalization
\* terminate after the registry has drained: exchange_fini stops the
\* matchmaker, walks the book and gives every order's funds and reference
\* back.  The clients post orders, disconnect, and the main thread shuts down.

\* running = 0 and sem_post(&matchmaker_sem); pthread_join waits from here
exchange_fini_stop ==
    /\ ~crashed
    /\ driver.pc = "fini"
    /\ driver' = [driver EXCEPT !.pc = "join"]
    /\ matchmaker_sem' = matchmaker_sem + 1
    /\ UNCHANGED << accountVars, sessionVars, buy_orders, sell_orders,
                    last_trade_price, next_order_id, mm, bcast, crashed,
                    historyVars, acct, acct_mutex, pricing, lockVars, out, bpkt >>

\* the walk's calls on the sessions: trader_get_account and trader_unref of
\* each order's owner, in the order of the lists
RECURSIVE fini_unrefs(_, _, _)
fini_unrefs(m, orders, ub) ==
    IF orders = << >> THEN m
    ELSE fini_unrefs(trader_unref(trader_use(m, Head(orders).trader, ub),
                                  Head(orders).trader, ub),
                     Tail(orders), ub)

\* account_increase_balance(account, order->quantity * order->price) per BUY
RECURSIVE fini_refunds(_, _)
fini_refunds(bal, orders) ==
    IF orders = << >> THEN bal
    ELSE fini_refunds(account_increase_balance(bal, heap[Head(orders).trader].name,
                                               UMul(Head(orders).quantity,
                                                    Head(orders).price)),
                      Tail(orders))

\* account_increase_inventory(account, order->quantity) per SELL
RECURSIVE fini_returns(_, _)
fini_returns(inv, orders) ==
    IF orders = << >> THEN inv
    ELSE fini_returns(account_increase_inventory(inv, heap[Head(orders).trader].name,
                                                 Head(orders).quantity),
                      Tail(orders))

\* pthread_join has returned; under the exchange mutex the buy list and then
\* the sell list are walked and freed
exchange_fini ==
    /\ ~crashed
    /\ driver.pc = "join"
    /\ mm.pc = "exited"
    /\ \E ub \in BOOLEAN :
         LET m == fini_unrefs(Mem, buy_orders \o sell_orders, ub)
         IN  IF m.crashed THEN Abort
             ELSE /\ Commit(m)
                  /\ balance' = fini_refunds(balance, buy_orders)
                  /\ inventory' = fini_returns(inventory, sell_orders)
                  /\ buy_orders' = << >>
                  /\ sell_orders' = << >>
                  /\ driver' = [driver EXCEPT !.pc = "finalized"]
                  /\ out' = << >>
                  /\ UNCHANGED << account_map, trader_map, conn, creg, empty_sem,
                                  last_trade_price, next_order_id, matchmaker_sem,
                                  mm, bcast, historyVars, acct, acct_mutex,
                                  pricing, lockVars, bpkt >>

FiniInit == LoggedInInit({Word \div 2}, {2})

FiniNext ==
    \/ \E c \in Conns, quantity \in Quantities, price \in Prices :
          PostBuy(c, quantity, price)
    \/ \E c \in Conns, quantity \in Quantities, price \in Prices :
          PostSell(c, quantity, price)
    \/ \E t \in Threads : BroadcastSend(t)
    \/ MatchmakerWake
    \/ MatchmakerTrade
    \/ MatchmakerFree
    \/ MatchmakerSleep
    \/ \E c \in Conns : Eof(c)
    \/ \E c \in Conns : trader_logout(c)
    \/ \E c \in Conns : DisconnectUnref(c)
    \/ \E c \in Conns : CloseConn(c)
    \/ sighup_handler
    \/ creg_shutdown_all
    \/ creg_wait_for_empty
    \/ creg_sem_wait
    \/ exchange_fini_stop
    \/ exchange_fini

SpecFini == FiniInit /\ [][FiniNext]_vars

\* the orders in the book that point to session s
OrdersOf(s) == Cardinality({i \in 1 .. Len(Book) : Book[i].trader = s})

\* the funds the BUY orders of account a hold, and the shares its SELL orders hold
RECURSIVE HeldCash(_, _)
HeldCash(orders, a) ==
    IF orders = << >> THEN 0
    ELSE (IF Head(orders).owner = a THEN Head(orders).quantity * Head(orders).price
          ELSE 0) + HeldCash(Tail(orders), a)

RECURSIVE HeldShares(_, _)
HeldShares(orders, a) ==
    IF orders = << >> THEN 0
    ELSE (IF Head(orders).owner = a THEN Head(orders).quantity ELSE 0)
         + HeldShares(Tail(orders), a)

\* C30: exchange finalization.  The book is walked with the matchmaker
\* stopped (running cleared, thread exited); the walk completes; every BUY
\* order gives remaining * limit price back to its owner's balance and every
\* SELL order its remaining quantity to its owner's inventory; each order
\* releases one reference that its owner session still holds for it; the book
\* is empty afterwards and every account's balance and inventory equal its
\* conserved totals.
C30_ExchangeFini ==
    [][exchange_fini =>
          /\ ~running /\ mm.pc = "exited"
          /\ ~crashed'
          /\ buy_orders' = << >> /\ sell_orders' = << >>
          /\ \A a \in Names :
               /\ balance'[a] = balance[a] + HeldCash(buy_orders, a)
               /\ inventory'[a] = inventory[a] + HeldShares(sell_orders, a)
               /\ balance'[a] = cash_net[a]
               /\ inventory'[a] = share_net[a]
          /\ \A s \in Slots :
               OrdersOf(s) > 0 =>
                  /\ heap[s].live
                  /\ heap[s].refcount >= OrdersOf(s)
                  /\ heap'[s].live = (heap[s].refcount > OrdersOf(s))
                  /\ heap'[s].live => heap'[s].refcount = heap[s].refcount - OrdersOf(s)
      ]_vars

\* ------------------------------------------------------- lock ordering
\* the number of a mutex in the documented order: the name-indexed
\* registries, the exchange, a session, an account
LockRank(m) ==
    CASE m[1] \in {"account_map", "trader_map"} -> 1
      [] m[1] = "exchange" -> 2
      [] m[1] = "session" -> 3
      [] m[1] = "account" -> 4

\* thread t is at a pthread_mutex_lock of mutex m
Acquires(t, m) ==
    /\ prog[t] # << >>
    /\ Head(prog[t]) = << "lock", m >>

\* C31: lock ordering.  No thread calls pthread_mutex_lock on a mutex while
\* it holds a mutex with a higher number in the order 1 = account map and
\* trader map, 2 = exchange, 3 = session, 4 = account; in particular no thread
\* that holds the exchange mutex locks the trader map or the account map.
C31_LockOrder ==
    \A t \in LkThreads : \A m, h \in Mutexes :
        (Acquires(t, m) /\ held_by[h] = t) => LockRank(h) <= LockRank(m)

\* --------------------------------------------------- broadcast recipients
\* thread t takes a broadcast's snapshot in this step
Snapshots(t) == bcast[t] = << >> /\ bcast'[t] # << >>

\* C32: broadcast recipients.  The recipients of a broadcast are the sessions
\* that are in trader_map when the snapshot is taken, each once, and each is
\* alive and referenced from then on; a session that has left the map is not
\* among them.  Each send writes the broadcast's packet once, to its
\* recipient's descriptor, and lowers the recipient's ref_count by one, the
\* reference the snapshot took, which the session still holds until then.
C32_BroadcastRecipients ==
    [][\A t \in Threads :
         /\ Snapshots(t) =>
               /\ bcast'[t] = trader_map
               /\ Cardinality(Range(bcast'[t])) = Len(bcast'[t])
               /\ \A s \in Range(bcast'[t]) :
                    /\ heap'[s].live
                    /\ \/ heap'[s].refcount >= heap[s].refcount + 1
                       \/ /\ t # Matchmaker
                          /\ s = conn[t].trader
                          /\ Len(Book') < Len(Book)
                          /\ heap'[s].refcount = heap[s].refcount
         /\ BroadcastSend(t) =>
               LET s == Head(bcast[t]) IN
                 /\ ~crashed'
                 /\ heap[s].live
                 /\ out'[1] = [bpkt[t] EXCEPT !.fd = heap[s].fd]
                 /\ \A i \in 2 .. Len(out') : out'[i].type \in {"ACK", "NACK"}
                 /\ bcast'[t] = Tail(bcast[t])
                 /\ heap'[s].live = (heap[s].refcount > 1)
                 /\ heap'[s].live => heap'[s].refcount = heap[s].refcount - 1
                 /\ \A u \in Threads \ {t} :
                      \A i \in 1 .. Len(bcast[u]) :
                         bcast[u][i] = s => heap'[s].live
      ]_vars

\* ------------------------------------------ orders of a disconnected owner
\* the connection that posted order o has disconnected: its session is out
\* of trader_map
OwnerGone(o) == o.trader \notin Range(trader_map)

\* the accounts after a trade of quantity q at price p between BUY order b
\* and SELL order s, credited to the orders' owners by name
OwnersBalance(b, s, q, p) ==
    LET bal1 == account_increase_balance(balance, s.owner, UMul(p, q))
        refund == UMul(q, USub(b.price, p))
    IN  IF refund > 0 THEN account_increase_balance(bal1, b.owner, refund) ELSE bal1

OwnersInventory(b, q) == account_increase_inventory(inventory, b.owner, q)

\* C33: orders survive their owner's disconnect.  The steps of a servicer's
\* cleanup leave the book and the accounts as they are, and when the
\* matchmaker trades an order whose owner has disconnected, the trade
\* completes and its proceeds, shares and refund go to the accounts of the
\* orders' owners.
C33_OrdersSurviveDisconnect ==
    [][/\ \A c \in Conns :
            (/\ Eof(c) \/ trader_logout(c) \/ DisconnectUnref(c) \/ CloseConn(c)
             /\ \E i \in 1 .. Len(Book) : Book[i].trader = conn[c].trader) =>
               /\ ~crashed'
               /\ UNCHANGED << buy_orders, sell_orders, balance, inventory >>
       /\ (/\ MatchmakerTrade
           /\ \/ OwnerGone(buy_orders[find_best_buy(buy_orders)])
              \/ OwnerGone(sell_orders[find_best_sell(sell_orders)])) =>
            LET b == buy_orders[find_best_buy(buy_orders)]
                s == sell_orders[find_best_sell(sell_orders)]
                p == trade_price(s.price, b.price, last_trade_price)
                q == IF s.quantity < b.quantity THEN s.quantity ELSE b.quantity
            IN  /\ ~crashed'
                /\ heap[b.trader].live /\ heap[b.trader].name = b.owner
                /\ heap[s.trader].live /\ heap[s.trader].name = s.owner
                /\ balance' = OwnersBalance(b, s, q, p)
                /\ inventory' = OwnersInventory(b, q)
      ]_vars

\* ------------------------------------------------- settlement of an order
\* Posts, cancels, the matchmaker, disconnects and finalization together.
SettleNext ==
    \/ \E c \in Conns, quantity \in Quantities, price \in Prices :
          PostBuy(c, quantity, price)
    \/ \E c \in Conns, quantity \in Quantities, price \in Prices :
          PostSell(c, quantity, price)
    \/ \E c \in Conns, id \in 1 .. MaxOrders : Cancel(c, id)
    \/ \E t \in Threads : BroadcastSend(t)
    \/ MatchmakerWake
    \/ MatchmakerTrade
    \/ MatchmakerFree
    \/ MatchmakerSleep
    \/ \E c \in Conns : Eof(c)
    \/ \E c \in Conns : trader_logout(c)
    \/ \E c \in Conns : DisconnectUnref(c)
    \/ \E c \in Conns : CloseConn(c)
    \/ sighup_handler
    \/ creg_shutdown_all
    \/ creg_wait_for_empty
    \/ creg_sem_wait
    \/ exchange_fini_stop
    \/ exchange_fini

SpecSettle == FiniInit /\ [][SettleNext]_vars

\* how often session s occurs in a list of sessions
RECURSIVE Occurrences(_, _)
Occurrences(ss, s) ==
    IF ss = << >> THEN 0
    ELSE (IF Head(ss) = s THEN 1 ELSE 0) + Occurrences(Tail(ss), s)

\* the references to session s that orders hold: one per order in the book
\* and one per filled order that the matchmaker has still to free
OrderRefs(s) == OrdersOf(s) + Occurrences(mm.freed, s)

\* the references to session s that broadcasts in progress hold
RECURSIVE BroadcastRefs(_, _)
BroadcastRefs(ts, s) ==
    IF ts = {} THEN 0
    ELSE LET t == CHOOSE u \in ts : TRUE
         IN  Occurrences(bcast[t], s) + BroadcastRefs(ts \ {t}, s)

\* what is left of a session's ref_count for its servicer
OtherRefs(s) == heap[s].refcount - OrderRefs(s) - BroadcastRefs(Threads, s)

\* every unit of account a's funds and shares is in the account, held by one
\* of its orders, or traded away: never in two places (in the machine word)
SettledOnce(a) ==
    /\ (balance[a] + HeldCash(buy_orders, a)) % Word = cash_net[a] % Word
    /\ (inventory[a] + HeldShares(sell_orders, a)) % Word = share_net[a] % Word

\* C34: each unit of an order's quantity is settled exactly once.  Whenever a
\* CANCEL is served, the matchmaker trades or frees filled orders, or
\* exchange_fini walks the book, the step completes, every order's quantity is
\* afterwards
\* still held by the order, traded or refunded and never two of these, no id
\* is in the book twice, and the owner of every order that is in the book or
\* waits to be freed is alive and holds one reference per such order, of
\* which the step releases exactly one for each order it removes and frees.
C34_SettledExactlyOnce ==
    [][((\E c \in Conns, id \in 1 .. MaxOrders : Cancel(c, id))
          \/ MatchmakerTrade \/ MatchmakerFree \/ exchange_fini) =>
          /\ ~crashed'
          /\ \A a \in Names : SettledOnce(a)'
          /\ \A i, j \in 1 .. Len(Book') : Book'[i].id = Book'[j].id => i = j
          /\ \A s \in Slots :
               /\ OrderRefs(s) > 0 =>
                    heap[s].live /\ heap[s].refcount >= OrderRefs(s)
               /\ OtherRefs(s)' = OtherRefs(s)
      ]_vars

\* ------------------------------------------------------ matchmaker progress
\* The matchmaker thread is scheduled whenever it can run, and the sockets
\* take every packet written to them.
FairSpecMatch ==
    /\ SpecTrading
    /\ \A t \in Threads : WF_vars(BroadcastSend(t))
    /\ WF_vars(MatchmakerWake)
    /\ WF_vars(MatchmakerTrade)
    /\ WF_vars(MatchmakerFree)
    /\ WF_vars(MatchmakerSleep)

\* C35: matchmaker progress.  Whenever a BUY order's limit price reaches a
\* SELL order's, the matchmaker eventually runs and trades until no such pair
\* is left in the book; no post's wake-up is lost, however many posts arrive
\* before the matchmaker runs.
C35_MatchmakerProgress == (~NoCrossingPair) ~> NoCrossingPair

\* two posts have been counted and neither has been served: the matchmaker
\* still sleeps and the orders cross
C35_Witness ==
    /\ mm.pc = "wait"
    /\ matchmaker_sem = 2
    /\ ~NoCrossingPair
    /\ ~crashed

\* ----------------------------------------------------- shutdown terminates
\* recv on a socket that creg_shutdown_all has half-closed returns EOF
ShutdownEof(c) == conn[c].fd \in driver.shut /\ Eof(c)

\* Every thread is scheduled; a client disconnects when it likes, and a
\* servicer is sure to see EOF only on a socket that was shut down.
FairSpecShutdown ==
    /\ SpecShutdown
    /\ \A c \in Conns :
         /\ WF_vars(creg_register(c))
         /\ WF_vars(ShutdownEof(c))
         /\ WF_vars(trader_logout(c))
         /\ WF_vars(DisconnectUnref(c))
         /\ WF_vars(SkipLogout(c))
         /\ WF_vars(CloseConn(c))
    /\ WF_vars(creg_shutdown_all)
    /\ WF_vars(creg_wait_for_empty)
    /\ WF_vars(creg_sem_wait)
    /\ WF_vars(terminate_fini)

\* C36: shutdown terminates.  Once SIGHUP has ended the accept loop, the main
\* thread gets through creg_shutdown_all and creg_wait_for_empty, finalizes
\* the modules and the process ends (by exit, or by an abort on the way).
C36_ShutdownTerminates ==
    (driver.pc = "shutdown_all") ~> (driver.pc = "finalized" \/ crashed)

\* ------------------------------------------------------------ status query
\* htonl / ntohl: the order of the word's units is reversed (bits here, bytes
\* in the machine word), so a field sent without the conversion or converted
\* twice arrives as another number
htonl(x) ==
    CHOOSE y \in 0 .. Word - 1 :
      \A i \in 0 .. WordBits - 1 :
        (y \div 2^i) % 2 = (x \div 2^(WordBits - 1 - i)) % 2

ntohl(x) == htonl(x)

\* account_get_status: balance and inventory of the account, read under its
\* mutex, in network order; every other field of the BRS_STATUS_INFO is set to 0
account_get_status(a) ==
    [balance |-> htonl(balance[a]), inventory |-> htonl(inventory[a]),
     bid |-> 0, ask |-> 0, last |-> 0, orderid |-> 0, quantity |-> 0]

\* a status that reports the account and leaves the book's fields at 0
status_without_book(a) == account_get_status(a)

\* exchange_get_status, under the exchange mutex
exchange_get_status(a) ==
    LET best_buy == find_best_buy(buy_orders)
        best_sell == find_best_sell(sell_orders)
    IN  [account_get_status(a) EXCEPT
           !.bid = IF best_buy # 0 THEN htonl(buy_orders[best_buy].price) ELSE 0,
           !.ask = IF best_sell # 0 THEN htonl(sell_orders[best_sell].price) ELSE 0,
           !.last = htonl(last_trade_price)]

\* trader_send_ack(trader, &info): the ACK with the BRS_STATUS_INFO as payload
status_ack(s, info) ==
    [type |-> "ACK", fd |-> heap[s].fd, info |-> info]

\* STATUS from a logged-in connection
Status(c) ==
    /\ LoggedIn(c)
    /\ ExchangeFree
    /\ \E ub \in BOOLEAN :
         LET s == conn[c].trader
             m == trader_use(Mem, s, ub)
         IN  IF m.crashed THEN Abort
             ELSE /\ out' = << status_ack(s, exchange_get_status(heap[s].name)) >>
                  /\ UNCHANGED << accountVars, sessionVars, exchangeVars, bcast,
                                  crashed, historyVars, harnessVars, bpkt >>

\* ------------------------------------------------------ requests and replies
\* The server from its start with clients that connect, log in and send every
\* kind of request, and stay connected.
RequestsNext ==
    \/ \E c \in Conns : Accept(c)
    \/ \E c \in Conns : PreLoginRefuse(c)
    \/ \E c \in Conns, name \in Names : Login(c, name)
    \/ \E c \in Conns : BadRequest(c)
    \/ \E c \in Conns, amount \in DepositAmounts : Deposit(c, amount)
    \/ \E c \in Conns, amount \in WithdrawAmounts : Withdraw(c, amount)
    \/ \E c \in Conns, quantity \in EscrowAmounts : Escrow(c, quantity)
    \/ \E c \in Conns, quantity \in ReleaseAmounts : Release(c, quantity)
    \/ \E c \in Conns, quantity \in Quantities, price \in Prices :
          PostBuy(c, quantity, price)
    \/ \E c \in Conns, quantity \in Quantities, price \in Prices :
          PostSell(c, quantity, price)
    \/ \E c \in Conns, id \in 1 .. MaxOrders : Cancel(c, id)
    \/ \E c \in Conns : Status(c)
    \/ \E t \in Threads : BroadcastSend(t)
    \/ MatchmakerWake
    \/ MatchmakerTrade
    \/ MatchmakerFree
    \/ MatchmakerSleep

SpecRequests == Init /\ [][RequestsNext]_vars

\* connection c's servicer handles a request packet in this step
Request(c) ==
    \/ PreLoginRefuse(c)
    \/ \E name \in Names : Login(c, name)
    \/ BadRequest(c)
    \/ \E amount \in DepositAmounts : Deposit(c, amount)
    \/ \E amount \in WithdrawAmounts : Withdraw(c, amount)
    \/ \E quantity \in EscrowAmounts : Escrow(c, quantity)
    \/ \E quantity \in ReleaseAmounts : Release(c, quantity)
    \/ \E quantity \in Quantities, price \in Prices : PostBuy(c, quantity, price)
    \/ \E quantity \in Quantities, price \in Prices : PostSell(c, quantity, price)
    \/ \E id \in 1 .. MaxOrders : Cancel(c, id)
    \/ Status(c)

\* the ACK and NACK packets among pkts that are addressed to descriptor fd
RECURSIVE Replies(_, _)
Replies(pkts, fd) ==
    IF pkts = << >> THEN 0
    ELSE (IF Head(pkts).type \in {"ACK", "NACK"} /\ Head(pkts).fd = fd THEN 1 ELSE 0)
         + Replies(Tail(pkts), fd)

\* the servicer of c is inside the broadcast of a request whose reply comes
\* after the broadcast: POSTED of a BUY, CANCELED of a CANCEL
Owed(c) ==
    /\ bcast[c] # << >>
    /\ \/ bpkt[c].type = "POSTED" /\ bpkt[c].buyer # 0
       \/ bpkt[c].type = "CANCELED"

OwedCount(c) == IF Owed(c) THEN 1 ELSE 0

\* C37: request/response discipline.  A servicer takes a request only when
\* the one before is finished; the handling of a request writes exactly one
\* ACK or NACK to the connection, in the step that takes the request or,
\* for BUY and CANCEL, at the end of the broadcast the request starts; no
\* other step writes an ACK or NACK to the connection, and notifications are
\* not replies.
C37_RequestReply ==
    [][\A c \in Conns :
         LET fd == conn'[c].fd
             sent == Replies(out', fd)
         IN  /\ Request(c) =>
                  /\ ~crashed'
                  /\ bcast[c] = << >>
                  /\ sent + OwedCount(c)' = 1
             /\ BroadcastSend(c) =>
                  /\ sent = OwedCount(c) - OwedCount(c)'
                  /\ bcast'[c] = << >> => ~Owed(c)'
             /\ ~(Request(c) \/ BroadcastSend(c)) =>
                  (conn[c].pc = "recv" => sent = 0 /\ OwedCount(c)' = OwedCount(c))
      ]_vars

\* a BUY has been taken and its POSTED broadcast is on its way: the ACK is
\* still to come
C37_Witness ==
    \E c \in Conns : Owed(c) /\ bpkt[c].type = "POSTED" /\ Len(bcast[c]) = 2

\* --------------------------------------------------- book well-formedness
\* C38: book well-formedness.  Whenever the exchange mutex is free, every
\* order of buy_orders is a BUY order and every order of sell_orders a SELL
\* order, each has a remaining quantity above 0 and a limit price above 0,
\* and no order is in the book twice, in one list or in both.
C38_BookWellFormed ==
    (ExchangeFree /\ ~crashed) =>
       /\ \A i \in 1 .. Len(buy_orders) : buy_orders[i].type = "BUY"
       /\ \A i \in 1 .. Len(sell_orders) : sell_orders[i].type = "SELL"
       /\ \A i \in 1 .. Len(Book) : Book[i].quantity > 0 /\ Book[i].price > 0
       /\ \A i, j \in 1 .. Len(Book) : Book[i].id = Book[j].id => i = j

\* the matchmaker has finished a pass that filled one order in part: what
\* is left of it stays in the book
C38_Witness ==
    /\ mm.pc = "wait"
    /\ matchmaker_sem = 0
    /\ last_trade_price # 0
    /\ \E i \in 1 .. Len(Book) : Book[i].quantity = 1
    /\ ~crashed

\* ------------------------------------------- status query: two traders
StatusNext ==
    \/ \E c \in Conns : Status(c)
    \/ \E c \in Conns, quantity \in AnyQuantities, price \in AnyPrices :
          PostBuy(c, quantity, price)
    \/ \E c \in Conns, quantity \in AnyQuantities, price \in AnyPrices :
          PostSell(c, quantity, price)
    \/ \E c \in Conns, id \in 1 .. MaxOrders : Cancel(c, id)
    \/ \E t \in Threads : BroadcastSend(t)
    \/ MatchmakerWake
    \/ MatchmakerTrade
    \/ MatchmakerFree
    \/ MatchmakerSleep

SpecStatus == TradingInit /\ [][StatusNext]_vars

\* the highest limit price among the BUY orders and the lowest among the SELL
\* orders, 0 for an empty side
BestBid ==
    IF buy_orders = << >> THEN 0
    ELSE CHOOSE p \in {buy_orders[i].price : i \in 1 .. Len(buy_orders)} :
           \A i \in 1 .. Len(buy_orders) : buy_orders[i].price <= p

BestAsk ==
    IF sell_orders = << >> THEN 0
    ELSE CHOOSE p \in {sell_orders[i].price : i \in 1 .. Len(sell_orders)} :
           \A i \in 1 .. Len(sell_orders) : sell_orders[i].price >= p

\* C39: status query.  The reply to STATUS is one ACK to the connection whose
\* fields, read in host order, are: bid the highest limit price among the
\* BUY orders or 0, ask the lowest among the SELL orders or 0, last the last
\* trade price, balance and inventory those of the session's account, orderid
\* and quantity 0; the last trade price is 0 until the matchmaker's first
\* trade; the ACK of a BUY, SELL or CANCEL carries the order's id.
C39_StatusQuery ==
    [][/\ \A c \in Conns :
            Status(c) =>
               /\ ~crashed'
               /\ Len(out') = 1
               /\ out'[1].type = "ACK"
               /\ out'[1].fd = conn[c].fd
               /\ LET info == out'[1].info
                  IN  /\ ntohl(info.bid) = BestBid
                      /\ ntohl(info.ask) = BestAsk
                      /\ ntohl(info.last) = last_trade_price
                      /\ ntohl(info.balance) = balance[AccountOf(c)]
                      /\ ntohl(info.inventory) = inventory[AccountOf(c)]
                      /\ info.orderid = 0
                      /\ info.quantity = 0
       /\ (last_trade_price' # last_trade_price) => MatchmakerTrade
       /\ \A i \in 1 .. Len(out') :
            (out'[i].type = "ACK" /\ ~(\E c \in Conns : Status(c))) =>
               out'[i].orderid # 0
      ]_vars

\* a client has been sent a status with a bid and a last trade price
C39_Witness ==
    /\ out # << >>
    /\ out[1].type = "ACK"
    /\ "info" \in DOMAIN out[1]
    /\ out[1].info.bid # 0
    /\ out[1].info.last # 0
    /\ out[1].info.balance # 0

\* ------------------------------------------------ cancel after a new login
\* one connection posts, the other cancels: an order in the book was posted
\* by a session of connection Poster, a CANCEL comes from a session of
\* connection Canceller
Poster == 1
Canceller == 2

ReloginNext ==
    \/ \E c \in Conns : PreLoginRefuse(c)
    \/ \E c \in Conns : BadRequest(c)
    \/ \E c \in Conns : Accept(c)
    \/ \E c \in Conns, name \in Names : Login(c, name)
    \/ \E c \in Conns : Eof(c)
    \/ \E c \in Conns : trader_logout(c)
    \/ \E c \in Conns : DisconnectUnref(c)
    \/ \E c \in Conns : SkipLogout(c)
    \/ \E c \in Conns : CloseConn(c)
    \/ \E c \in Conns, amount \in DepositAmounts : Deposit(c, amount)
    \/ \E c \in Conns, quantity \in EscrowAmounts : Escrow(c, quantity)
    \/ \E quantity \in Quantities, price \in Prices : PostBuy(Poster, quantity, price)
    \/ \E quantity \in Quantities, price \in Prices : PostSell(Poster, quantity, price)
    \/ \E id \in 1 .. MaxOrders : Cancel(Canceller, id)
    \/ \E t \in Threads : BroadcastSend(t)
    \/ MatchmakerWake
    \/ MatchmakerTrade
    \/ MatchmakerFree
    \/ MatchmakerSleep

SpecRelogin == Init /\ [][ReloginNext]_vars

\* C40: cancel ownership is by session, not by name.  A CANCEL from a session
\* of one connection for an order in the book that a session of another
\* connection posted under the same name (the poster has disconnected, the
\* name has logged in again) is answered with a NACK and changes nothing.
C40_CancelBySession ==
    [][\A id \in 1 .. MaxOrders :
         ( /\ Cancel(Canceller, id)
           /\ ~crashed'
           /\ InBook(id)
           /\ BookOrder(id).owner = AccountOf(Canceller) )
         => Refused(Canceller)
      ]_vars

====
